---- MODULE Spec2Model ----
(***************************************************************************)
(* Event-registration subsystem of the BITSA backend: events, simple       *)
(* registrations, registration forms with fields, and submissions.         *)
(* Every request handler is a process whose steps are its awaited storage  *)
(* calls; the code between two awaits runs atomically with the first.      *)
(***************************************************************************)
EXTENDS Integers, Sequences, FiniteSets, TLC

\* ---------------------------------------------------------------- bounds
MaxEvents == 2
MaxUsers == 2
MaxReq == 2
MaxTime == 3
MaxCap == 1
MaxRegId == 2
\* events created in the specifications that follow a single event
MaxEdited == 1
MaxFields == 2
MaxFieldId == 4
MaxSubId == 2
MaxNotifs == 1

EventIds == 1..MaxEvents
Users == 1..MaxUsers
Requests == 1..MaxReq
Times == 1..MaxTime
RegIds == 1..MaxRegId

\* JavaScript null and undefined for numeric and id-valued fields
Null == -1
Undef == -2

EventStatus == {"UPCOMING", "ONGOING", "COMPLETED", "CANCELLED"}
\* status column default of a freshly created Event row
DefaultStatus == "UPCOMING"

\* the role the auth middleware attaches to the caller
Role(u) == IF u = 1 THEN "ADMIN" ELSE "STUDENT"
Admins == {u \in Users : Role(u) \in {"ADMIN", "SUPER_ADMIN"}}

\* JavaScript truthiness of a number-or-null value
Truthy(x) == x # Null /\ x # Undef /\ x # 0

\* ---------------------------------------------------------------- slugs
Titles == {<<"A", "b">>, <<"a", " ", "b">>, <<"a", "-", "b">>, <<"b">>}

ToLowerCase(c) == CASE c = "A" -> "a" [] c = "B" -> "b" [] OTHER -> c
IsSlugChar(c) == c \in {"a", "b", "0", "1"}

RECURSIVE DashRuns(_)
\* .toLowerCase().replace(/[^a-z0-9]+/g, "-")
DashRuns(s) ==
  IF s = <<>> THEN <<>>
  ELSE LET c == ToLowerCase(Head(s))
           rest == DashRuns(Tail(s))
       IN IF IsSlugChar(c) THEN <<c>> \o rest
          ELSE IF rest # <<>> /\ Head(rest) = "-" THEN rest
          ELSE <<"-">> \o rest

\* .replace(/(^-|-$)/g, "")
TrimDashes(s) ==
  LET a == IF s # <<>> /\ Head(s) = "-" THEN Tail(s) ELSE s
  IN IF a # <<>> /\ a[Len(a)] = "-" THEN SubSeq(a, 1, Len(a) - 1) ELSE a

\* title slug + "-" + Date.now()
MakeSlug(title, t) == <<TrimDashes(DashRuns(title)), t>>

\* ---------------------------------------------------------------- state
\* now            the clock read by new Date() and Date.now()
\* events         the Event table, by id
\* registrations  the EventRegistration rows
\* nextRegId      the next fresh EventRegistration id
\* req            the requests being handled, each at one of its awaits
\* out            the response sent by the step just taken, NoOut if it sent none
\* forms          the EventRegistrationForm table, by event (one form per event)
\* fields         the EventRegistrationField rows
\* submissions    the EventRegistrationSubmission rows
VARIABLES now, events, registrations, nextRegId, forms, fields, nextFieldId,
          submissions, nextSubId, notifications, userNotifications, req, out

vars == <<now, events, registrations, nextRegId, forms, fields, nextFieldId,
          submissions, nextSubId, notifications, userNotifications, req, out>>

\* the tables of the form controller
formVars == <<forms, fields, nextFieldId, submissions, nextSubId>>
\* the tables of the event controllers
regVars == <<registrations, nextRegId>>
\* the tables of the notification controller
notifVars == <<notifications, userNotifications>>

NotifIds == 1..MaxNotifs
NotifStatus == {"DRAFT", "SCHEDULED", "SENT", "CANCELLED"}
\* a title key that the body does not carry
NoTitle == ""
\* titles of notification bodies
NotifTitles == {"x", "y"}

NoNotif == [exists |-> FALSE, title |-> NoTitle, scheduledFor |-> Null, status |-> "DRAFT",
            sentAt |-> Null, totalRecipients |-> 0]

NoEvent == [exists |-> FALSE, title |-> <<>>, slug |-> <<>>, status |-> DefaultStatus,
            startDate |-> Null, endDate |-> Null, registrationDeadline |-> Null,
            maxAttendees |-> Null, requiresRegistration |-> FALSE]

NoForm == [exists |-> FALSE, requiresApproval |-> FALSE]

NoArg == [none |-> TRUE]
IdleReq == [op |-> "none", pc |-> "idle", user |-> Null, arg |-> NoArg, loc |-> NoArg]
\* dup: the caller's row for the same event (or form) was there when the
\* request arrived and is still there when it is answered
\* data: the payload of the answer, for the answers whose payload is modelled
NoOut == [op |-> "none", resp |-> 0, msg |-> "none", dup |-> FALSE, data |-> NoArg]

Init ==
  /\ now = 1
  /\ events = [e \in EventIds |-> NoEvent]
  /\ registrations = {}
  /\ nextRegId = 1
  /\ forms = [e \in EventIds |-> NoForm]
  /\ fields = {}
  /\ nextFieldId = 1
  /\ submissions = {}
  /\ nextSubId = 1
  /\ notifications = [n \in NotifIds |-> NoNotif]
  /\ userNotifications = {}
  /\ req = [r \in Requests |-> IdleReq]
  /\ out = NoOut

Idle(r) == req[r].pc = "idle"
\* request slots are interchangeable: a new request takes the lowest idle one
Accepts(r) == Idle(r) /\ \A q \in Requests : q < r => ~Idle(q)

\* res.status(code).json({ message }) of a handler
Answer(op, code, msg, dup) ==
  [op |-> op, resp |-> code, msg |-> msg, dup |-> dup, data |-> NoArg]
\* res.status(code).json({ message, data })
AnswerData(op, code, msg, data) ==
  [op |-> op, resp |-> code, msg |-> msg, dup |-> FALSE, data |-> data]
Begin(op, u, arg, pc, loc) == [op |-> op, pc |-> pc, user |-> u, arg |-> arg, loc |-> loc]

\* the clock read by new Date() / Date.now()
Tick ==
  /\ now < MaxTime
  /\ now' = now + 1
  /\ out' = NoOut
  /\ UNCHANGED <<events, regVars, formVars, notifVars, req>>

\* prisma.activity.create at the end of a handler: the insert succeeds and the
\* handler answers with its success code, or it throws and the catch answers 500
LogActivity(r, code) ==
  /\ req[r].pc = "log"
  /\ \/ out' = Answer(req[r].op, code, "ok", FALSE)
     \/ out' = Answer(req[r].op, 500, "error", FALSE)
  /\ req' = [req EXCEPT ![r] = IdleReq]

\* ---------------------------------------------------------------- events
FreeEventIds == {e \in EventIds : ~events[e].exists}
EventCount == Cardinality({e \in EventIds : events[e].exists})

\* an Event table without the unique index on slug
SlugNeverTaken(e, sl) == FALSE

\* the unique index on Event.slug that findUnique({ where: { slug } }) names:
\* a row other than e holds the slug
SlugTaken(e, sl) == \E x \in EventIds \ {e} : events[x].exists /\ events[x].slug = sl

\* EventController.createEvent: validation, slug, prisma.event.create; the
\* index rejects a slug that is taken (P2002), which the catch answers with 500
CreateEvent(r, u, title, sd, ed, dl, ma) ==
  /\ Accepts(r)
  /\ LET a == [title |-> title, startDate |-> sd, endDate |-> ed,
               registrationDeadline |-> dl, maxAttendees |-> ma]
     IN IF title = <<>> \/ ~Truthy(sd) \/ ~Truthy(ed)
        THEN /\ out' = Answer("createEvent", 400, "required", FALSE)
             /\ UNCHANGED <<events, req>>
        ELSE IF SlugTaken(Null, MakeSlug(title, now))
        THEN /\ out' = Answer("createEvent", 500, "P2002", FALSE)
             /\ UNCHANGED <<events, req>>
        ELSE /\ FreeEventIds # {}
             /\ LET e == CHOOSE x \in FreeEventIds : \A y \in FreeEventIds : x <= y
                IN /\ events' = [events EXCEPT ![e] =
                         [exists |-> TRUE, title |-> title, slug |-> MakeSlug(title, now),
                          status |-> DefaultStatus, startDate |-> sd, endDate |-> ed,
                          registrationDeadline |-> IF Truthy(dl) THEN dl ELSE Null,
                          maxAttendees |-> IF Truthy(ma) THEN ma ELSE Null,
                          requiresRegistration |-> FALSE]]
                   /\ req' = [req EXCEPT ![r] = Begin("createEvent", u, a, "log", [eventId |-> e])]
             /\ out' = NoOut
  /\ UNCHANGED <<now, notifVars, regVars, formVars>>

CreateEventLog(r) ==
  /\ req[r].op = "createEvent"
  /\ LogActivity(r, 201)
  /\ UNCHANGED <<now, notifVars, events, regVars, formVars>>

\* the updateData object built by updateEvent from the request body; a key
\* that is not set is <<>> for title and slug, "" for status, Undef otherwise
UpdateData(existing, p, t) ==
  [title |-> p.title,
   slug |-> IF p.title # <<>>
            THEN (IF p.title # existing.title THEN MakeSlug(p.title, t) ELSE existing.slug)
            ELSE <<>>,
   startDate |-> IF Truthy(p.startDate) THEN p.startDate ELSE Undef,
   endDate |-> IF Truthy(p.endDate) THEN p.endDate ELSE Undef,
   registrationDeadline |-> IF p.registrationDeadline # Undef
                            THEN (IF Truthy(p.registrationDeadline) THEN p.registrationDeadline ELSE Null)
                            ELSE Undef,
   maxAttendees |-> IF p.maxAttendees # Undef
                    THEN (IF Truthy(p.maxAttendees) THEN p.maxAttendees ELSE Null)
                    ELSE Undef,
   status |-> p.status]

\* the status the event's dates give at time t
DeriveStatus(t, sd, ed) ==
  IF t < sd THEN "UPCOMING" ELSE IF t <= ed THEN "ONGOING" ELSE "COMPLETED"

\* an update that recomputes the status from the dates whenever the body
\* carries no status
ApplyUpdateRecompute(row, d) ==
  LET sd == IF d.startDate # Undef THEN d.startDate ELSE row.startDate
      ed == IF d.endDate # Undef THEN d.endDate ELSE row.endDate
  IN [row EXCEPT !.title = IF d.title # <<>> THEN d.title ELSE @,
                 !.slug = IF d.title # <<>> THEN d.slug ELSE @,
                 !.startDate = sd,
                 !.endDate = ed,
                 !.registrationDeadline = IF d.registrationDeadline # Undef THEN d.registrationDeadline ELSE @,
                 !.maxAttendees = IF d.maxAttendees # Undef THEN d.maxAttendees ELSE @,
                 !.status = IF d.status # "" THEN d.status ELSE DeriveStatus(now, sd, ed)]

\* prisma.event.update({ data: updateData }): only the keys present are written
ApplyUpdate(row, d) ==
  [row EXCEPT !.title = IF d.title # <<>> THEN d.title ELSE @,
              !.slug = IF d.title # <<>> THEN d.slug ELSE @,
              !.startDate = IF d.startDate # Undef THEN d.startDate ELSE @,
              !.endDate = IF d.endDate # Undef THEN d.endDate ELSE @,
              !.registrationDeadline = IF d.registrationDeadline # Undef THEN d.registrationDeadline ELSE @,
              !.maxAttendees = IF d.maxAttendees # Undef THEN d.maxAttendees ELSE @,
              !.status = IF d.status # "" THEN d.status ELSE @]

\* EventController.updateEvent up to its first write: findUnique, 404, updateData
UpdateEvent(r, u, e, p) ==
  /\ Accepts(r)
  /\ IF ~events[e].exists
     THEN /\ out' = Answer("updateEvent", 404, "not found", FALSE)
          /\ UNCHANGED req
     ELSE /\ req' = [req EXCEPT ![r] = Begin("updateEvent", u, [eventId |-> e, patch |-> p], "update",
                        [updateData |-> UpdateData(events[e], p, now)])]
          /\ out' = NoOut
  /\ UNCHANGED <<now, notifVars, events, regVars, formVars>>

\* prisma.event.update; the index on slug rejects a new slug that is taken
UpdateEventWrite(r) ==
  /\ req[r].op = "updateEvent" /\ req[r].pc = "update"
  /\ LET e == req[r].arg.eventId
         d == req[r].loc.updateData
     IN IF d.title # <<>> /\ SlugTaken(e, d.slug)
        THEN /\ out' = Answer("updateEvent", 500, "P2002", FALSE)
             /\ req' = [req EXCEPT ![r] = IdleReq]
             /\ UNCHANGED events
        ELSE /\ events' = [events EXCEPT ![e] = ApplyUpdate(@, d)]
             /\ req' = [req EXCEPT ![r].pc = "log"]
             /\ out' = NoOut
  /\ UNCHANGED <<now, notifVars, regVars, formVars>>

UpdateEventLog(r) ==
  /\ req[r].op = "updateEvent"
  /\ LogActivity(r, 200)
  /\ UNCHANGED <<now, notifVars, events, regVars, formVars>>

\* ------------------------------------------------------- registrations
RegsOf(e) == {g \in registrations : g.eventId = e}
\* prisma.eventRegistration.findUnique({ where: { eventId_userId } })
RegOf(e, u) == {g \in registrations : g.eventId = e /\ g.userId = u}
RegById(id) == {g \in registrations : g.id = id}

\* the registration the caller already had when the request arrived is still there
StillRegistered(r) ==
  req[r].loc.prior # Null /\ RegById(req[r].loc.prior) # {}

PriorOf(e, u) == IF RegOf(e, u) = {} THEN Null ELSE (CHOOSE g \in RegOf(e, u) : TRUE).id

\* registrationDeadline && new Date() > registrationDeadline, with a deadline
\* that counts as passed from its own instant on
DeadlineIncluded(dl, t) == Truthy(dl) /\ t >= dl

\* event.registrationDeadline && new Date() > event.registrationDeadline
DeadlinePassed(dl, t) == Truthy(dl) /\ t > dl

\* a capacity check that lets one registration too many through
IsFullOffByOne(ma, n) == Truthy(ma) /\ n > ma

\* event.maxAttendees && event._count.registrations >= event.maxAttendees
IsFull(ma, n) == Truthy(ma) /\ n >= ma

\* the answer of a registration handler to the request of u for e
AnswerReg(op, code, msg, dup, u, e) ==
  [Answer(op, code, msg, dup) EXCEPT !.data = [eventId |-> e, userId |-> u]]

\* EventController.registerForEvent up to its second read: event.findUnique
\* with the registration count, then the 404, deadline and capacity answers
RegisterForEvent(r, u, e) ==
  /\ Accepts(r)
  /\ LET dup == e # Null /\ RegOf(e, u) # {}
     IN IF e = Null
        THEN /\ out' = Answer("register", 400, "event id required", FALSE)
             /\ UNCHANGED req
        ELSE IF ~events[e].exists
        THEN /\ out' = AnswerReg("register", 404, "not found", dup, u, e)
             /\ UNCHANGED req
        ELSE IF DeadlinePassed(events[e].registrationDeadline, now)
        THEN /\ out' = AnswerReg("register", 400, "deadline", dup, u, e)
             /\ UNCHANGED req
        ELSE IF IsFull(events[e].maxAttendees, Cardinality(RegsOf(e)))
        THEN /\ out' = AnswerReg("register", 400, "full", dup, u, e)
             /\ UNCHANGED req
        ELSE /\ req' = [req EXCEPT ![r] = Begin("register", u, [eventId |-> e], "findReg",
                           [prior |-> PriorOf(e, u)])]
             /\ out' = NoOut
  /\ UNCHANGED <<now, notifVars, events, regVars, formVars>>

\* eventRegistration.findUnique and the 409 answer
RegisterFind(r) ==
  /\ req[r].op = "register" /\ req[r].pc = "findReg"
  /\ IF RegOf(req[r].arg.eventId, req[r].user) # {}
     THEN /\ out' = AnswerReg("register", 409, "already registered", StillRegistered(r),
                              req[r].user, req[r].arg.eventId)
          /\ req' = [req EXCEPT ![r] = IdleReq]
     ELSE /\ req' = [req EXCEPT ![r].pc = "create"]
          /\ out' = NoOut
  /\ UNCHANGED <<now, notifVars, events, regVars, formVars>>

\* the unique index on (eventId, userId) that findUnique's eventId_userId names
UniqueViolation(e, u) == RegOf(e, u) # {}
\* prisma.eventRegistration.create: the row is inserted, or the unique index
\* rejects it (P2002) and the handler's catch answers with onConflict
InsertRegistration(r, onConflict) ==
  LET e == req[r].arg.eventId
      u == req[r].user
  IN IF UniqueViolation(e, u)
     THEN /\ out' = Answer(req[r].op, onConflict, "P2002", StillRegistered(r))
          /\ req' = [req EXCEPT ![r] = IdleReq]
          /\ UNCHANGED <<registrations, nextRegId>>
     ELSE /\ nextRegId <= MaxRegId
          /\ registrations' = registrations \cup {[id |-> nextRegId, eventId |-> e, userId |-> u]}
          /\ nextRegId' = nextRegId + 1
          /\ req' = [req EXCEPT ![r].pc = "log"]
          /\ out' = NoOut

\* EventController.registerForEvent: its catch answers every error with 500
RegisterCreate(r) ==
  /\ req[r].op = "register" /\ req[r].pc = "create"
  /\ InsertRegistration(r, 500)
  /\ UNCHANGED <<now, notifVars, events, formVars>>

RegisterLog(r) ==
  /\ req[r].op = "register"
  /\ LogActivity(r, 201)
  /\ UNCHANGED <<now, notifVars, events, regVars, formVars>>

\* StudentEventController.registerForEvent up to its second read
StudentRegister(r, u, e) ==
  /\ Accepts(r)
  /\ IF e = Null
     THEN /\ out' = Answer("studentRegister", 400, "event id required", FALSE)
          /\ UNCHANGED req
     ELSE IF ~events[e].exists
     THEN /\ out' = Answer("studentRegister", 404, "not found", RegOf(e, u) # {})
          /\ UNCHANGED req
     ELSE /\ req' = [req EXCEPT ![r] = Begin("studentRegister", u, [eventId |-> e], "findReg",
                        [prior |-> PriorOf(e, u),
                         status |-> events[e].status,
                         registrationDeadline |-> events[e].registrationDeadline,
                         maxAttendees |-> events[e].maxAttendees,
                         count |-> Cardinality(RegsOf(e))])]
          /\ out' = NoOut
  /\ UNCHANGED <<now, notifVars, events, regVars, formVars>>

\* eventRegistration.findUnique first, then the checks on the event as read
StudentRegisterFind(r) ==
  /\ req[r].op = "studentRegister" /\ req[r].pc = "findReg"
  /\ LET ev == req[r].loc
         reply(code, msg) == /\ out' = AnswerReg("studentRegister", code, msg, StillRegistered(r),
                                                  req[r].user, req[r].arg.eventId)
                             /\ req' = [req EXCEPT ![r] = IdleReq]
     IN IF RegOf(req[r].arg.eventId, req[r].user) # {}
        THEN reply(409, "already registered")
        ELSE IF ev.status = "CANCELLED"
        THEN reply(400, "cancelled")
        ELSE IF ev.status = "COMPLETED"
        THEN reply(400, "ended")
        ELSE IF DeadlinePassed(ev.registrationDeadline, now)
        THEN reply(400, "deadline")
        ELSE IF Truthy(ev.maxAttendees) /\ ev.maxAttendees > 0 /\ ev.count >= ev.maxAttendees
        THEN reply(400, "full")
        ELSE /\ req' = [req EXCEPT ![r].pc = "create"]
             /\ out' = NoOut
  /\ UNCHANGED <<now, notifVars, events, regVars, formVars>>

\* StudentEventController.registerForEvent: its catch answers P2002 with 409
StudentRegisterCreate(r) ==
  /\ req[r].op = "studentRegister" /\ req[r].pc = "create"
  /\ InsertRegistration(r, 409)
  /\ UNCHANGED <<now, notifVars, events, formVars>>

StudentRegisterLog(r) ==
  /\ req[r].op = "studentRegister"
  /\ LogActivity(r, 201)
  /\ UNCHANGED <<now, notifVars, events, regVars, formVars>>

\* a check that lets every caller through
AnyoneMayCancel(u, g) == TRUE

\* userRole !== "ADMIN" && userRole !== "SUPER_ADMIN" &&
\* registration.userId !== userId is answered 403
MayCancel(u, g) == Role(u) = "ADMIN" \/ Role(u) = "SUPER_ADMIN" \/ g.userId = u

\* EventController.cancelRegistration up to its delete: findUnique, 404, 403
CancelRegistration(r, u, id) ==
  /\ Accepts(r)
  /\ IF RegById(id) = {}
     THEN /\ out' = Answer("cancel", 404, "not found", FALSE)
          /\ UNCHANGED req
     ELSE IF ~MayCancel(u, CHOOSE g \in RegById(id) : TRUE)
     THEN /\ out' = AnswerData("cancel", 403, "forbidden", [regId |-> id, userId |-> u])
          /\ UNCHANGED req
     ELSE /\ req' = [req EXCEPT ![r] = Begin("cancel", u, [regId |-> id], "delete", NoArg)]
          /\ out' = NoOut
  /\ UNCHANGED <<now, notifVars, events, regVars, formVars>>

\* a cancellation that keeps the row
RowsAfterSoftCancel(id) == registrations

\* prisma.eventRegistration.delete({ where: { id } })
RowsAfterCancel(id) == registrations \ RegById(id)

\* prisma.eventRegistration.delete: throws when the row is gone already
CancelDelete(r) ==
  /\ req[r].op = "cancel" /\ req[r].pc = "delete"
  /\ IF RegById(req[r].arg.regId) = {}
     THEN /\ out' = Answer("cancel", 500, "P2025", FALSE)
          /\ req' = [req EXCEPT ![r] = IdleReq]
          /\ UNCHANGED registrations
     ELSE /\ registrations' = RowsAfterCancel(req[r].arg.regId)
          /\ req' = [req EXCEPT ![r].pc = "log"]
          /\ out' = NoOut
  /\ UNCHANGED <<now, notifVars, events, nextRegId, formVars>>

CancelLog(r) ==
  /\ req[r].op = "cancel"
  /\ LogActivity(r, 200)
  /\ UNCHANGED <<now, notifVars, events, regVars, formVars>>

\* registration.userId !== userId is answered 403
OwnsRegistration(u, g) == g.userId = u

\* StudentEventController.cancelRegistration up to its delete: findUnique,
\* 404, 403
StudentCancelRegistration(r, u, id) ==
  /\ Accepts(r)
  /\ IF RegById(id) = {}
     THEN /\ out' = Answer("studentCancel", 404, "not found", FALSE)
          /\ UNCHANGED req
     ELSE IF ~OwnsRegistration(u, CHOOSE g \in RegById(id) : TRUE)
     THEN /\ out' = AnswerData("studentCancel", 403, "forbidden", [regId |-> id, userId |-> u])
          /\ UNCHANGED req
     ELSE /\ req' = [req EXCEPT ![r] = Begin("studentCancel", u, [regId |-> id], "delete", NoArg)]
          /\ out' = NoOut
  /\ UNCHANGED <<now, notifVars, events, regVars, formVars>>

\* prisma.eventRegistration.delete: throws when the row is gone already
StudentCancelDelete(r) ==
  /\ req[r].op = "studentCancel" /\ req[r].pc = "delete"
  /\ IF RegById(req[r].arg.regId) = {}
     THEN /\ out' = Answer("studentCancel", 500, "P2025", FALSE)
          /\ req' = [req EXCEPT ![r] = IdleReq]
          /\ UNCHANGED registrations
     ELSE /\ registrations' = RowsAfterCancel(req[r].arg.regId)
          /\ req' = [req EXCEPT ![r].pc = "log"]
          /\ out' = NoOut
  /\ UNCHANGED <<now, notifVars, events, nextRegId, formVars>>

StudentCancelLog(r) ==
  /\ req[r].op = "studentCancel"
  /\ LogActivity(r, 200)
  /\ UNCHANGED <<now, notifVars, events, regVars, formVars>>

\* --------------------------------------------------------------- forms
\* a form's id is the id of its event: eventId is unique on the form table
\* and no handler deletes a form
FieldIds == 1..MaxFieldId
FieldsOf(f) == {x \in fields : x.formId = f}

\* fields.map((field, index) => ({ label, required: field.required || false,
\* order: index })), the rows taking fresh ids from first on
NewFieldRows(f, fl, first) ==
  {[id |-> first + i - 1, formId |-> f, label |-> fl[i].label,
    required |-> fl[i].required, order |-> i - 1] : i \in 1..Len(fl)}

\* EventFormController.createOrUpdateForm up to its second read: event
\* lookup, 404, and the 400 for an empty field list
CreateOrUpdateForm(r, u, e, ra, fl) ==
  /\ Accepts(r)
  /\ IF ~events[e].exists
     THEN /\ out' = Answer("form", 404, "not found", FALSE)
          /\ UNCHANGED req
     ELSE IF Len(fl) = 0
     THEN /\ out' = Answer("form", 400, "field required", FALSE)
          /\ UNCHANGED req
     ELSE /\ req' = [req EXCEPT ![r] = Begin("form", u,
                        [eventId |-> e, requiresApproval |-> ra, fields |-> fl], "findForm", NoArg)]
          /\ out' = NoOut
  /\ UNCHANGED <<now, notifVars, events, regVars, formVars>>

\* eventRegistrationForm.findUnique({ where: { eventId }, include: { fields } })
FormFind(r) ==
  /\ req[r].op = "form" /\ req[r].pc = "findForm"
  /\ LET e == req[r].arg.eventId
     IN req' = [req EXCEPT ![r].pc = IF forms[e].exists THEN "deleteFields" ELSE "createForm",
                           ![r].loc = [existingFields |-> FieldsOf(e)]]
  /\ out' = NoOut
  /\ UNCHANGED <<now, notifVars, events, regVars, formVars>>

\* a deleteMany that removes nothing
KeepAllFields(f) == fields

\* eventRegistrationField.deleteMany({ where: { formId } })
FieldsAfterDelete(f) == {x \in fields : x.formId # f}

FormDeleteFields(r) ==
  /\ req[r].op = "form" /\ req[r].pc = "deleteFields"
  /\ fields' = FieldsAfterDelete(req[r].arg.eventId)
  /\ req' = [req EXCEPT ![r].pc = "updateForm"]
  /\ out' = NoOut
  /\ UNCHANGED <<now, notifVars, events, regVars, forms, nextFieldId, submissions, nextSubId>>

\* eventRegistrationForm.update with the nested create of the new fields
FormUpdate(r) ==
  /\ req[r].op = "form" /\ req[r].pc = "updateForm"
  /\ LET e == req[r].arg.eventId
         fl == req[r].arg.fields
     IN /\ nextFieldId + Len(fl) - 1 <= MaxFieldId
        /\ forms' = [forms EXCEPT ![e].requiresApproval = req[r].arg.requiresApproval]
        /\ fields' = fields \cup NewFieldRows(e, fl, nextFieldId)
        /\ nextFieldId' = nextFieldId + Len(fl)
  /\ req' = [req EXCEPT ![r].pc = "flag"]
  /\ out' = NoOut
  /\ UNCHANGED <<now, notifVars, events, regVars, submissions, nextSubId>>

\* eventRegistrationForm.create with the nested create of the fields; the
\* unique eventId rejects a second form for the event (P2002, answered 500)
FormCreate(r) ==
  /\ req[r].op = "form" /\ req[r].pc = "createForm"
  /\ LET e == req[r].arg.eventId
         fl == req[r].arg.fields
     IN IF forms[e].exists
        THEN /\ out' = Answer("form", 500, "P2002", FALSE)
             /\ req' = [req EXCEPT ![r] = IdleReq]
             /\ UNCHANGED <<forms, fields, nextFieldId>>
        ELSE /\ nextFieldId + Len(fl) - 1 <= MaxFieldId
             /\ forms' = [forms EXCEPT ![e] =
                   [exists |-> TRUE, requiresApproval |-> req[r].arg.requiresApproval]]
             /\ fields' = fields \cup NewFieldRows(e, fl, nextFieldId)
             /\ nextFieldId' = nextFieldId + Len(fl)
             /\ req' = [req EXCEPT ![r].pc = "flag"]
             /\ out' = NoOut
  /\ UNCHANGED <<now, notifVars, events, regVars, submissions, nextSubId>>

\* prisma.event.update({ data: { requiresRegistration: true } })
FormFlag(r) ==
  /\ req[r].op = "form" /\ req[r].pc = "flag"
  /\ events' = [events EXCEPT ![req[r].arg.eventId].requiresRegistration = TRUE]
  /\ req' = [req EXCEPT ![r].pc = "log"]
  /\ out' = NoOut
  /\ UNCHANGED <<now, notifVars, regVars, formVars>>

FormLog(r) ==
  /\ req[r].op = "form"
  /\ LogActivity(r, 201)
  /\ UNCHANGED <<now, notifVars, events, regVars, formVars>>

\* an awaited storage call of createOrUpdateForm throws (or the process
\* stops): the handler ends there and what it has written stays
FormStorageError(r) ==
  /\ req[r].op = "form" /\ ~Idle(r)
  /\ out' = Answer("form", 500, "error", FALSE)
  /\ req' = [req EXCEPT ![r] = IdleReq]
  /\ UNCHANGED <<now, notifVars, events, regVars, formVars>>

\* --------------------------------------------------------- submissions
SubsOf(f, u) == {x \in submissions : x.formId = f /\ x.userId = u}
SubById(id) == {x \in submissions : x.id = id}

\* the submission the caller already had when the request arrived is still there
StillSubmitted(r) == req[r].loc.prior # Null /\ SubById(req[r].loc.prior) # {}

\* attended is a nullable boolean: 1 for true, 0 for false, Null while unset
\* (the column's value in a freshly created row)
DefaultAttended == Null

\* EventFormController.submitForm up to its second read: the form with its
\* fields and event, 404, and the deadline answer
SubmitForm(r, u, f, rs) ==
  /\ Accepts(r)
  /\ LET dup == SubsOf(f, u) # {}
     IN IF ~forms[f].exists
        THEN /\ out' = Answer("submit", 404, "not found", dup)
             /\ UNCHANGED req
        ELSE IF DeadlinePassed(events[f].registrationDeadline, now)
        THEN /\ out' = [Answer("submit", 400, "deadline", dup) EXCEPT !.data = [formId |-> f]]
             /\ UNCHANGED req
        ELSE /\ req' = [req EXCEPT ![r] = Begin("submit", u, [formId |-> f, responses |-> rs], "findSub",
                           [prior |-> IF dup THEN (CHOOSE x \in SubsOf(f, u) : TRUE).id ELSE Null,
                            fields |-> FieldsOf(f),
                            requiresApproval |-> forms[f].requiresApproval,
                            created |-> Null])]
             /\ out' = NoOut
  /\ UNCHANGED <<now, notifVars, events, regVars, formVars>>

\* responses is the set of the field ids with a truthy entry in the body's
\* responses object; a body without a responses key is NoResponses
NoResponses == {Undef}

\* the required fields that !responses[field.id] finds without an entry
MissingRequired(fs, rs) == {x \in fs : x.required /\ x.id \notin rs}

\* form.fields as include: { fields: true } returns it: the rows of the form
\* in an order that the database chooses (the query has no orderBy)
Orderings(fs) ==
  {sq \in [1..Cardinality(fs) -> fs] : \A i, j \in 1..Cardinality(fs) : sq[i] = sq[j] => i = j}

RECURSIVE ValidateRequired(_, _)
\* for (const field of form.fields)
\*   if (field.required && !responses[field.id]) return 400 `${field.label} is required`
\* responses[field.id] throws a TypeError when responses is undefined
ValidateRequired(sq, rs) ==
  IF sq = <<>> THEN [result |-> "ok", label |-> ""]
  ELSE IF ~Head(sq).required THEN ValidateRequired(Tail(sq), rs)
  ELSE IF rs = NoResponses THEN [result |-> "throw", label |-> ""]
  ELSE IF Head(sq).id \notin rs THEN [result |-> "missing", label |-> Head(sq).label]
  ELSE ValidateRequired(Tail(sq), rs)

\* eventRegistrationSubmission.findUnique, 409, then the required fields
SubmitFind(r) ==
  /\ req[r].op = "submit" /\ req[r].pc = "findSub"
  /\ IF SubsOf(req[r].arg.formId, req[r].user) # {}
     THEN /\ out' = Answer("submit", 409, "already submitted", StillSubmitted(r))
          /\ req' = [req EXCEPT ![r] = IdleReq]
     ELSE \E sq \in Orderings(req[r].loc.fields) :
            LET v == ValidateRequired(sq, req[r].arg.responses)
            IN IF v.result = "missing"
               THEN /\ out' = [Answer("submit", 400, "required", StillSubmitted(r))
                                 EXCEPT !.data = [label |-> v.label]]
                    /\ req' = [req EXCEPT ![r] = IdleReq]
               ELSE IF v.result = "throw"
               THEN /\ out' = Answer("submit", 500, "TypeError", StillSubmitted(r))
                    /\ req' = [req EXCEPT ![r] = IdleReq]
               ELSE /\ req' = [req EXCEPT ![r].pc = "create"]
                    /\ out' = NoOut
  /\ UNCHANGED <<now, notifVars, events, regVars, formVars>>

\* a submission that always waits for approval
InitialStatusPending(ra) == "PENDING"

\* status: form.requiresApproval ? "PENDING" : "APPROVED"
InitialStatus(ra) == IF ra THEN "PENDING" ELSE "APPROVED"

\* an insert that stamps approvedAt whatever the form requires
InitialApprovedAtAlways(ra, t) == t

\* approvedAt: form.requiresApproval ? null : new Date()
InitialApprovedAt(ra, t) == IF ra THEN Null ELSE t

\* eventRegistrationSubmission.create; the unique index on (formId, userId)
\* that findUnique's formId_userId names rejects a second row (P2002), which
\* the handler's catch answers with 500. A body without responses gives
\* data.responses = undefined, which the create rejects if the column is
\* required and stores as null if it is not.
SubmitCreate(r) ==
  /\ req[r].op = "submit" /\ req[r].pc = "create"
  /\ LET f == req[r].arg.formId
         u == req[r].user
     IN IF SubsOf(f, u) # {}
        THEN /\ out' = Answer("submit", 500, "P2002", StillSubmitted(r))
             /\ req' = [req EXCEPT ![r] = IdleReq]
             /\ UNCHANGED <<submissions, nextSubId>>
        ELSE
          \/ /\ req[r].arg.responses = NoResponses
             /\ out' = Answer("submit", 500, "responses missing", FALSE)
             /\ req' = [req EXCEPT ![r] = IdleReq]
             /\ UNCHANGED <<submissions, nextSubId>>
          \/ /\ nextSubId <= MaxSubId
             /\ submissions' = submissions \cup
                  {[id |-> nextSubId, formId |-> f, eventId |-> f, userId |-> u,
                    responses |-> req[r].arg.responses,
                    status |-> InitialStatus(req[r].loc.requiresApproval),
                    approvedAt |-> InitialApprovedAt(req[r].loc.requiresApproval, now),
                    approvedBy |-> Null, rejectionReason |-> Null,
                    attended |-> DefaultAttended, attendanceMarkedAt |-> Null,
                    attendanceMarkedBy |-> Null]}
             /\ nextSubId' = nextSubId + 1
             /\ req' = [req EXCEPT ![r].pc = "log", ![r].loc.created = nextSubId]
             /\ out' = NoOut
  /\ UNCHANGED <<now, notifVars, events, regVars, forms, fields, nextFieldId>>

SubmitLog(r) ==
  /\ req[r].op = "submit"
  /\ LogActivity(r, 201)
  /\ UNCHANGED <<now, notifVars, events, regVars, formVars>>

\* ------------------------------------------------- approval and attendance
SubmissionStatus == {"PENDING", "APPROVED", "REJECTED", "WAITLISTED"}
SubIds == 1..MaxSubId

\* a check that lets every status of the enum through
AnyNewStatus(st) == st \in SubmissionStatus

\* !["APPROVED", "REJECTED", "WAITLISTED"].includes(status) is answered 400
ValidNewStatus(st) == st \in {"APPROVED", "REJECTED", "WAITLISTED"}

\* EventFormController.updateSubmissionStatus up to its write: the check of
\* the status in the body, findUnique, 404
UpdateSubmissionStatus(r, u, id, st, rr) ==
  /\ Accepts(r)
  /\ IF ~ValidNewStatus(st)
     THEN /\ out' = AnswerData("updateStatus", 400, "invalid status", [status |-> st])
          /\ UNCHANGED req
     ELSE IF SubById(id) = {}
     THEN /\ out' = Answer("updateStatus", 404, "not found", FALSE)
          /\ UNCHANGED req
     ELSE /\ req' = [req EXCEPT ![r] = Begin("updateStatus", u,
                        [id |-> id, status |-> st, rejectionReason |-> rr], "update", NoArg)]
          /\ out' = NoOut
  /\ UNCHANGED <<now, notifVars, events, regVars, formVars>>

\* an update that writes the rejection reason of the body whatever the status
StatusDataKeepReason(x, st, rr, u, t) ==
  [x EXCEPT !.status = st,
            !.approvedBy = IF st = "APPROVED" THEN u ELSE Null,
            !.approvedAt = IF st = "APPROVED" THEN t ELSE Null,
            !.rejectionReason = IF rr = Undef THEN @ ELSE rr]

\* data: { status, approvedBy, approvedAt, rejectionReason } of the update; a
\* rejectionReason of undefined leaves the column as it is
StatusData(x, st, rr, u, t) ==
  [x EXCEPT !.status = st,
            !.approvedBy = IF st = "APPROVED" THEN u ELSE Null,
            !.approvedAt = IF st = "APPROVED" THEN t ELSE Null,
            !.rejectionReason = IF st = "REJECTED" THEN (IF rr = Undef THEN @ ELSE rr) ELSE Null]

\* eventRegistrationSubmission.update({ where: { id }, data })
UpdateStatusWrite(r) ==
  /\ req[r].op = "updateStatus" /\ req[r].pc = "update"
  /\ submissions' = {IF x.id = req[r].arg.id
                     THEN StatusData(x, req[r].arg.status, req[r].arg.rejectionReason, req[r].user, now)
                     ELSE x : x \in submissions}
  /\ req' = [req EXCEPT ![r].pc = "log"]
  /\ out' = NoOut
  /\ UNCHANGED <<now, notifVars, events, regVars, forms, fields, nextFieldId, nextSubId>>

UpdateStatusLog(r) ==
  /\ req[r].op = "updateStatus"
  /\ LogActivity(r, 200)
  /\ UNCHANGED <<now, notifVars, events, regVars, formVars>>

\* an updateMany without the status filter
BulkTargetsAnyStatus(ids) == {x \in submissions : x.id \in ids}

\* where: { id: { in: submissionIds }, status: "PENDING" }
BulkTargets(ids) == {x \in submissions : x.id \in ids /\ x.status = "PENDING"}

\* EventFormController.bulkApproveSubmissions: the check of the id list and
\* updateMany({ where: { id: { in }, status: "PENDING" }, data })
BulkApproveSubmissions(r, u, ids) ==
  /\ Accepts(r)
  /\ IF ids = {}
     THEN /\ out' = Answer("bulkApprove", 400, "ids required", FALSE)
          /\ UNCHANGED <<req, submissions>>
     ELSE /\ submissions' = {IF x \in BulkTargets(ids)
                             THEN [x EXCEPT !.status = "APPROVED", !.approvedBy = u, !.approvedAt = now]
                             ELSE x : x \in submissions}
          /\ req' = [req EXCEPT ![r] = Begin("bulkApprove", u, [ids |-> ids], "log", NoArg)]
          /\ out' = NoOut
  /\ UNCHANGED <<now, notifVars, events, regVars, forms, fields, nextFieldId, nextSubId>>

BulkApproveLog(r) ==
  /\ req[r].op = "bulkApprove"
  /\ LogActivity(r, 200)
  /\ UNCHANGED <<now, notifVars, events, regVars, formVars>>

\* a check that lets every submission through
AnyStatusMarkable(st) == TRUE

\* submission.status !== "APPROVED" is answered 400
Markable(st) == st = "APPROVED"

\* EventFormController.markAttendance up to its write: findUnique, 404, and
\* the 400 for a submission that is not APPROVED
MarkAttendance(r, u, id, att) ==
  /\ Accepts(r)
  /\ IF SubById(id) = {}
     THEN /\ out' = Answer("markAttendance", 404, "not found", FALSE)
          /\ UNCHANGED req
     ELSE IF ~Markable((CHOOSE x \in SubById(id) : TRUE).status)
     THEN /\ out' = AnswerData("markAttendance", 400, "not approved", [id |-> id])
          /\ UNCHANGED req
     ELSE /\ req' = [req EXCEPT ![r] = Begin("markAttendance", u,
                        [id |-> id, attended |-> att], "update", NoArg)]
          /\ out' = NoOut
  /\ UNCHANGED <<now, notifVars, events, regVars, formVars>>

\* eventRegistrationSubmission.update({ where: { id },
\*   data: { attended, attendanceMarkedAt: new Date(), attendanceMarkedBy } });
\* a body without attended leaves the column as it is
MarkAttendanceWrite(r) ==
  /\ req[r].op = "markAttendance" /\ req[r].pc = "update"
  /\ submissions' = {IF x.id = req[r].arg.id
                     THEN [x EXCEPT !.attended = IF req[r].arg.attended = Undef THEN @
                                                 ELSE req[r].arg.attended,
                                    !.attendanceMarkedAt = now,
                                    !.attendanceMarkedBy = req[r].user]
                     ELSE x : x \in submissions}
  /\ req' = [req EXCEPT ![r].pc = "log"]
  /\ out' = NoOut
  /\ UNCHANGED <<now, notifVars, events, regVars, forms, fields, nextFieldId, nextSubId>>

MarkAttendanceLog(r) ==
  /\ req[r].op = "markAttendance"
  /\ LogActivity(r, 200)
  /\ UNCHANGED <<now, notifVars, events, regVars, formVars>>

\* eventRegistrationSubmission.count({ where: { eventId } })
CountSubs(e) == Cardinality({x \in submissions : x.eventId = e})
\* count({ where: { eventId, status: "APPROVED" } })
CountApproved(e) == Cardinality({x \in submissions : x.eventId = e /\ x.status = "APPROVED"})
\* a count of the attended column that leaves the status out
CountAttendedAnyStatus(e, att) ==
  Cardinality({x \in submissions : x.eventId = e /\ x.attended = att})
\* count({ where: { eventId, status: "APPROVED", attended } })
CountAttended(e, att) ==
  Cardinality({x \in submissions : x.eventId = e /\ x.status = "APPROVED" /\ x.attended = att})
\* groupBy({ by: ["attended", "status"], where: { eventId }, _count: true })
GroupByAttendedStatus(e) ==
  LET rows == {x \in submissions : x.eventId = e}
  IN {[attended |-> x.attended, status |-> x.status,
       count |-> Cardinality({y \in rows : y.attended = x.attended /\ y.status = x.status})]
      : x \in rows}

\* EventFormController.getAttendanceStats: the groupBy
GetAttendanceStats(r, u, e) ==
  /\ Accepts(r)
  /\ req' = [req EXCEPT ![r] = Begin("stats", u, [eventId |-> e], "total",
                [details |-> GroupByAttendedStatus(e), totalSubmissions |-> Null,
                 approved |-> Null, attended |-> Null])]
  /\ out' = NoOut
  /\ UNCHANGED <<now, notifVars, events, regVars, formVars>>

\* the three counts that follow it
StatsCount(r) ==
  /\ req[r].op = "stats" /\ req[r].pc \in {"total", "approved", "attended"}
  /\ LET e == req[r].arg.eventId
     IN req' = [req EXCEPT
          ![r].pc = CASE @ = "total" -> "approved" [] @ = "approved" -> "attended"
                      [] OTHER -> "absent",
          ![r].loc.totalSubmissions = IF req[r].pc = "total" THEN CountSubs(e) ELSE @,
          ![r].loc.approved = IF req[r].pc = "approved" THEN CountApproved(e) ELSE @,
          ![r].loc.attended = IF req[r].pc = "attended" THEN CountAttended(e, 1) ELSE @]
  /\ out' = NoOut
  /\ UNCHANGED <<now, notifVars, events, regVars, formVars>>

\* approved > 0 ? ((attended / approved) * 100).toFixed(2) : 0, in hundredths
\* of a percent, rounded to the nearest
AttendanceRate(attended, approved) ==
  IF approved > 0 THEN (attended * 20000 + approved) \div (2 * approved) ELSE 0

\* the last count and the answer
StatsAnswer(r) ==
  /\ req[r].op = "stats" /\ req[r].pc = "absent"
  /\ out' = AnswerData("stats", 200, "ok",
               [eventId |-> req[r].arg.eventId,
                totalSubmissions |-> req[r].loc.totalSubmissions,
                approved |-> req[r].loc.approved,
                attended |-> req[r].loc.attended,
                absent |-> CountAttended(req[r].arg.eventId, 0),
                attendanceRate |-> AttendanceRate(req[r].loc.attended, req[r].loc.approved),
                details |-> req[r].loc.details])
  /\ req' = [req EXCEPT ![r] = IdleReq]
  /\ UNCHANGED <<now, notifVars, events, regVars, formVars>>

\* -------------------------------------------------------- notifications
\* the ids of the notification table that are not taken
FreeNotifIds == {n \in NotifIds : ~notifications[n].exists}

\* NotificationController.createNotification: notification.create, and the
\* 201 of a body without sendNow
CreateNotification(r, u, title, sf, sendNow) ==
  /\ Accepts(r)
  /\ FreeNotifIds # {}
  /\ LET n == CHOOSE i \in FreeNotifIds : \A j \in FreeNotifIds : i <= j
     IN /\ notifications' = [notifications EXCEPT ![n] =
               [exists |-> TRUE, title |-> title,
                scheduledFor |-> IF Truthy(sf) THEN sf ELSE Null,
                status |-> IF sendNow THEN "SENT"
                           ELSE IF Truthy(sf) THEN "SCHEDULED" ELSE "DRAFT",
                sentAt |-> IF sendNow THEN now ELSE Null,
                totalRecipients |-> 0]]
        /\ IF sendNow
           THEN /\ req' = [req EXCEPT ![r] = Begin("createNotification", u, [id |-> n],
                              "sendFind", [userIds |-> {}])]
                /\ out' = NoOut
           ELSE /\ out' = AnswerData("createNotification", 201, "created", [id |-> n])
                /\ UNCHANGED req
  /\ UNCHANGED <<now, events, regVars, formVars, userNotifications>>

\* the handlers that call sendNotification
Senders == {"createNotification", "sendNow"}

\* the answer of the handler that called sendNotification, once it returns
SendAnswer(r) ==
  IF req[r].op = "createNotification"
  THEN AnswerData("createNotification", 201, "sent", [id |-> req[r].arg.id])
  ELSE AnswerData("sendNow", 200, "sent", [id |-> req[r].arg.id])

\* NotificationController.sendNotification: findUnique, and the return for a
\* notification that is not there
SendFind(r) ==
  /\ req[r].op \in Senders /\ req[r].pc = "sendFind"
  /\ IF ~notifications[req[r].arg.id].exists
     THEN /\ out' = SendAnswer(r)
          /\ req' = [req EXCEPT ![r] = IdleReq]
     ELSE /\ req' = [req EXCEPT ![r].pc = "sendUsers"]
          /\ out' = NoOut
  /\ UNCHANGED <<now, events, regVars, formVars, notifVars>>

\* user.findMany({ where: { isActive: true } }) for the audience ALL_USERS
SendUsers(r) ==
  /\ req[r].op \in Senders /\ req[r].pc = "sendUsers"
  /\ req' = [req EXCEPT ![r].pc = "sendRows", ![r].loc.userIds = Users]
  /\ out' = NoOut
  /\ UNCHANGED <<now, events, regVars, formVars, notifVars>>

\* userNotification.createMany({ data, skipDuplicates: true })
SendRows(r) ==
  /\ req[r].op \in Senders /\ req[r].pc = "sendRows"
  /\ userNotifications' = userNotifications
                           \cup {<<u, req[r].arg.id>> : u \in req[r].loc.userIds}
  /\ req' = [req EXCEPT ![r].pc = "sendUpdate"]
  /\ out' = NoOut
  /\ UNCHANGED <<now, events, regVars, formVars, notifications>>

\* notification.update({ data: { status: "SENT", sentAt, totalRecipients } }),
\* the return, and the caller's answer
SendUpdate(r) ==
  /\ req[r].op \in Senders /\ req[r].pc = "sendUpdate"
  /\ notifications' = [notifications EXCEPT ![req[r].arg.id] =
        [@ EXCEPT !.status = "SENT", !.sentAt = now,
                  !.totalRecipients = Cardinality(req[r].loc.userIds)]]
  /\ out' = SendAnswer(r)
  /\ req' = [req EXCEPT ![r] = IdleReq]
  /\ UNCHANGED <<now, events, regVars, formVars, userNotifications>>

\* notification.status === "SENT"
AlreadySent(row) == row.status = "SENT"

\* the reads of updateNotification, sendNotificationNow and
\* cancelNotification: findUnique, 404, and the 400 for a sent notification
FindNotification(r, u, op, id, arg, pc) ==
  /\ IF ~notifications[id].exists
     THEN /\ out' = AnswerData(op, 404, "not found", [id |-> id])
          /\ UNCHANGED req
     ELSE IF AlreadySent(notifications[id])
     THEN /\ out' = AnswerData(op, 400, "sent", [id |-> id])
          /\ UNCHANGED req
     ELSE /\ req' = [req EXCEPT ![r] = Begin(op, u, arg, pc, [userIds |-> {}])]
          /\ out' = NoOut
  /\ UNCHANGED <<now, events, regVars, formVars, notifVars>>

\* NotificationController.updateNotification up to its write
UpdateNotification(r, u, id, title, sf) ==
  /\ Accepts(r)
  /\ FindNotification(r, u, "updateNotification", id,
                      [id |-> id, title |-> title, scheduledFor |-> sf], "update")

\* notification.update({ where: { id }, data: { title, ..., scheduledFor } })
\* and the 200; a title the body does not carry leaves the column as it is
UpdateNotificationWrite(r) ==
  /\ req[r].op = "updateNotification" /\ req[r].pc = "update"
  /\ notifications' = [notifications EXCEPT ![req[r].arg.id] =
        [@ EXCEPT !.title = IF req[r].arg.title = NoTitle THEN @ ELSE req[r].arg.title,
                  !.scheduledFor = IF Truthy(req[r].arg.scheduledFor)
                                   THEN req[r].arg.scheduledFor ELSE Null]]
  /\ out' = AnswerData("updateNotification", 200, "updated", [id |-> req[r].arg.id])
  /\ req' = [req EXCEPT ![r] = IdleReq]
  /\ UNCHANGED <<now, events, regVars, formVars, userNotifications>>

\* NotificationController.sendNotificationNow up to its call of sendNotification
SendNotificationNow(r, u, id) ==
  /\ Accepts(r)
  /\ FindNotification(r, u, "sendNow", id, [id |-> id], "sendFind")

\* NotificationController.cancelNotification up to its write
CancelNotification(r, u, id) ==
  /\ Accepts(r)
  /\ FindNotification(r, u, "cancelNotification", id, [id |-> id], "update")

\* notification.update({ where: { id }, data: { status: "CANCELLED" } }) and
\* the 200
CancelNotificationWrite(r) ==
  /\ req[r].op = "cancelNotification" /\ req[r].pc = "update"
  /\ notifications' = [notifications EXCEPT ![req[r].arg.id].status = "CANCELLED"]
  /\ out' = AnswerData("cancelNotification", 200, "cancelled", [id |-> req[r].arg.id])
  /\ req' = [req EXCEPT ![r] = IdleReq]
  /\ UNCHANGED <<now, events, regVars, formVars, userNotifications>>

\* the steps of the notification handlers after their first
NotifSteps(r) ==
  \/ SendFind(r) \/ SendUsers(r) \/ SendRows(r) \/ SendUpdate(r)
  \/ UpdateNotificationWrite(r) \/ CancelNotificationWrite(r)

NoPatch == [title |-> <<>>, startDate |-> Undef, endDate |-> Undef,
            registrationDeadline |-> Undef, maxAttendees |-> Undef, status |-> ""]

\* request bodies of updateEvent explored by the event specification: an edit
\* of non-date fields, edits of the dates, and edits that carry a status
EventPatches ==
  {[NoPatch EXCEPT !.title = <<"b">>, !.registrationDeadline = 1, !.maxAttendees = 1],
   [NoPatch EXCEPT !.startDate = 2],
   [NoPatch EXCEPT !.status = "UPCOMING", !.endDate = 3],
   [NoPatch EXCEPT !.status = "CANCELLED"]}

\* no request is being handled
Quiet == \A q \in Requests : Idle(q)

\* events created and edited by one admin request at a time
NextEvent ==
  \/ Tick
  \/ \E r \in Requests, u \in Admins :
       \/ \E t \in {<<>>, <<"A", "b">>}, sd \in {Null, 1} :
            Quiet /\ EventCount < MaxEdited /\ CreateEvent(r, u, t, sd, 2, Null, Null)
       \/ \E e \in EventIds, p \in EventPatches : Quiet /\ UpdateEvent(r, u, e, p)
  \/ \E r \in Requests : CreateEventLog(r) \/ UpdateEventWrite(r) \/ UpdateEventLog(r)

SpecEvent == Init /\ [][NextEvent]_vars

\* ------------------------------------------------ claims on event status
\* request r creates its event in this step
CreatesEvent(r) == Idle(r) /\ req'[r].op = "createEvent" /\ req'[r].pc = "log"
\* request r writes its update in this step
WritesEvent(r) == req[r].op = "updateEvent" /\ req[r].pc = "update" /\ req'[r].pc = "log"

\* the body sets no start date, no end date and no status
NonDatePatch(p) == ~Truthy(p.startDate) /\ ~Truthy(p.endDate) /\ p.status = ""

\* C5: the status stored by createEvent or updateEvent is the one the resulting
\* dates give at the time of the write (ONGOING if start <= now <= end, UPCOMING
\* if now < start, COMPLETED if now > end), for an event that is not CANCELLED.
C5_StatusFollowsDates ==
  [][\A r \in Requests :
       /\ CreatesEvent(r) =>
            LET ev == events'[req'[r].loc.eventId]
            IN ev.status = DeriveStatus(now, ev.startDate, ev.endDate)
       /\ WritesEvent(r) =>
            LET ev == events'[req[r].arg.eventId]
            IN ev.status = "CANCELLED" \/ ev.status = DeriveStatus(now, ev.startDate, ev.endDate)]_vars

\* C6: an updateEvent whose body changes only non-date fields leaves a
\* CANCELLED event CANCELLED.
C6_CancelledKeptByNonDateEdit ==
  [][\A r \in Requests :
       (/\ WritesEvent(r)
        /\ NonDatePatch(req[r].arg.patch)
        /\ events[req[r].arg.eventId].status = "CANCELLED")
       => events'[req[r].arg.eventId].status = "CANCELLED"]_vars

\* a CANCELLED event has just been written by an update that carries a title
\* or a deadline and capacity but no date and no status
C6_Witness ==
  \E r \in Requests :
    /\ req[r].op = "updateEvent" /\ req[r].pc = "log"
    /\ NonDatePatch(req[r].arg.patch)
    /\ req[r].arg.patch.title # <<>> \/ req[r].arg.patch.maxAttendees # Undef
    /\ events[req[r].arg.eventId].status = "CANCELLED"

\* C7: once an event is CANCELLED it stays CANCELLED, whatever updateEvent
\* calls follow.
C7_CancelledAbsorbing ==
  [][\A e \in EventIds :
       (events[e].exists /\ events[e].status = "CANCELLED")
       => events'[e].status = "CANCELLED"]_vars

\* ------------------------------------------- registration specification
\* registration and cancellation requests of all users, handled concurrently,
\* on events created with and without a deadline and a capacity
NextReg ==
  \/ Tick
  \/ \E r \in Requests, u \in Admins, dl \in {Null, 1}, ma \in {0} \cup 1..MaxCap :
       EventCount < MaxEdited /\ CreateEvent(r, u, <<"b">>, 1, MaxTime, dl, ma)
  \/ \E r \in Requests, u \in Users, e \in EventIds \cup {Null} :
       RegisterForEvent(r, u, e) \/ StudentRegister(r, u, e)
  \/ \E r \in Requests, u \in Users, id \in RegIds : CancelRegistration(r, u, id)
  \/ \E r \in Requests :
       \/ CreateEventLog(r)
       \/ RegisterFind(r) \/ RegisterCreate(r) \/ RegisterLog(r)
       \/ StudentRegisterFind(r) \/ StudentRegisterCreate(r) \/ StudentRegisterLog(r)
       \/ CancelDelete(r) \/ CancelLog(r)

SpecReg == Init /\ [][NextReg]_vars

\* simple registrations and cancellations for one event, handled one at a time
NextRegSeq ==
  \/ Tick
  \/ \E r \in Requests, u \in Admins, dl \in {Null, 1}, ma \in {0} \cup 1..MaxCap :
       Quiet /\ EventCount = 0 /\ CreateEvent(r, u, <<"b">>, 1, MaxTime, dl, ma)
  \/ \E r \in Requests, u \in Users, e \in EventIds \cup {Null} :
       Quiet /\ RegisterForEvent(r, u, e)
  \/ \E r \in Requests, u \in Users, id \in RegIds : Quiet /\ CancelRegistration(r, u, id)
  \/ \E r \in Requests :
       \/ CreateEventLog(r)
       \/ RegisterFind(r) \/ RegisterCreate(r) \/ RegisterLog(r)
       \/ CancelDelete(r) \/ CancelLog(r)

SpecRegSeq == Init /\ [][NextRegSeq]_vars

\* ---------------------------------------------------- form specifications
FieldA == [label |-> "a", required |-> TRUE]
FieldB == [label |-> "b", required |-> FALSE]
\* the field lists of the request bodies: empty, one field, two fields
FieldLists == {<<>>, <<FieldA>>, <<FieldB, FieldA>>}

FormSteps(r) ==
  \/ FormFind(r) \/ FormDeleteFields(r) \/ FormUpdate(r) \/ FormCreate(r)
  \/ FormFlag(r) \/ FormLog(r)

\* forms created and replaced by one admin request at a time
NextForm ==
  \/ \E r \in Requests, u \in Admins :
       Quiet /\ EventCount < MaxEdited /\ CreateEvent(r, u, <<"b">>, 1, MaxTime, Null, Null)
  \/ \E r \in Requests, u \in Admins, e \in EventIds, ra \in BOOLEAN, fl \in FieldLists :
       Quiet /\ CreateOrUpdateForm(r, u, e, ra, fl)
  \/ \E r \in Requests : CreateEventLog(r) \/ FormSteps(r)

SpecForm == Init /\ [][NextForm]_vars

\* the same, with storage calls of createOrUpdateForm that may fail
NextFormFail ==
  \/ NextForm
  \/ \E r \in Requests : FormStorageError(r)

SpecFormFail == Init /\ [][NextFormFail]_vars

\* submissions of all users, handled concurrently, to forms that an admin
\* sets up once per event; a body answers every field or none
NextSub ==
  \/ Tick
  \/ \E r \in Requests, u \in Admins, dl \in {Null, 1} :
       Quiet /\ EventCount < MaxEdited /\ CreateEvent(r, u, <<"b">>, 1, MaxTime, dl, Null)
  \/ \E r \in Requests, u \in Admins, e \in EventIds, ra \in BOOLEAN :
       Quiet /\ ~forms[e].exists /\ CreateOrUpdateForm(r, u, e, ra, <<FieldA>>)
  \/ \E r \in Requests, u \in Users, f \in EventIds, rs \in {{}, FieldIds} :
       SubmitForm(r, u, f, rs)
  \/ \E r \in Requests :
       \/ CreateEventLog(r)
       \/ FormFind(r) \/ FormCreate(r) \/ FormFlag(r) \/ FormLog(r)
       \/ SubmitFind(r) \/ SubmitCreate(r) \/ SubmitLog(r)

SpecSub == Init /\ [][NextSub]_vars

\* the same requests, handled one at a time, for events without a deadline;
\* the clock advances once, so that approvedAt takes two values
NextSubSeq ==
  \/ now = 1 /\ Tick
  \/ \E r \in Requests, u \in Admins :
       Quiet /\ EventCount < MaxEdited /\ CreateEvent(r, u, <<"b">>, 1, MaxTime, Null, Null)
  \/ \E r \in Requests, u \in Admins, e \in EventIds, ra \in BOOLEAN :
       Quiet /\ ~forms[e].exists /\ CreateOrUpdateForm(r, u, e, ra, <<FieldA>>)
  \/ \E r \in Requests, u \in Users, f \in EventIds, rs \in {{}, FieldIds} :
       Quiet /\ SubmitForm(r, u, f, rs)
  \/ \E r \in Requests :
       \/ CreateEventLog(r)
       \/ FormFind(r) \/ FormCreate(r) \/ FormFlag(r) \/ FormLog(r)
       \/ SubmitFind(r) \/ SubmitCreate(r) \/ SubmitLog(r)

SpecSubSeq == Init /\ [][NextSubSeq]_vars

\* ------------------------------------------ the attendance specification
\* one event with a form; submissions, decisions on them, attendance marks
\* and statistics, one request at a time and at one clock value
NextAttend ==
  \/ \E r \in Requests, u \in Admins :
       Quiet /\ EventCount = 0 /\ CreateEvent(r, u, <<"b">>, 1, MaxTime, Null, Null)
  \/ \E r \in Requests, u \in Admins, e \in EventIds, ra \in BOOLEAN :
       Quiet /\ ~forms[e].exists /\ CreateOrUpdateForm(r, u, e, ra, <<FieldA>>)
  \/ \E r \in Requests, u \in Users, f \in EventIds :
       Quiet /\ forms[f].exists /\ SubmitForm(r, u, f, FieldIds)
  \/ \E r \in Requests, u \in Admins, id \in SubIds :
       \/ \E st \in {"APPROVED", "REJECTED", "PENDING"} :
            Quiet /\ UpdateSubmissionStatus(r, u, id, st, Undef)
       \/ \E att \in {0, 1} : Quiet /\ MarkAttendance(r, u, id, att)
  \/ \E r \in Requests, u \in Admins, ids \in {{}, SubIds} :
       Quiet /\ BulkApproveSubmissions(r, u, ids)
  \/ \E r \in Requests, u \in Admins, e \in EventIds :
       Quiet /\ events[e].exists /\ GetAttendanceStats(r, u, e)
  \/ \E r \in Requests :
       \/ CreateEventLog(r)
       \/ FormFind(r) \/ FormCreate(r) \/ FormFlag(r) \/ FormLog(r)
       \/ SubmitFind(r) \/ SubmitCreate(r) \/ SubmitLog(r)
       \/ UpdateStatusWrite(r) \/ UpdateStatusLog(r) \/ BulkApproveLog(r)
       \/ MarkAttendanceWrite(r) \/ MarkAttendanceLog(r)
       \/ StatsCount(r) \/ StatsAnswer(r)

SpecAttend == Init /\ [][NextAttend]_vars

\* ---------------------------------------------------- claims on attendance
StatusOf(id) == (CHOOSE x \in SubById(id) : TRUE).status

\* C11: markAttendance answers 400 exactly for a submission that exists and is
\* not APPROVED, and then changes no submission; for an APPROVED one it writes
\* attended, attendanceMarkedAt and attendanceMarkedBy of that submission and
\* nothing else; and the answer of getAttendanceStats gives, as attended and
\* absent, the numbers of APPROVED submissions of the event marked true and
\* marked false at that time.
C11_MarkAttendanceNeedsApproved ==
  [][/\ (out'.op = "markAttendance" /\ out'.msg = "not approved")
        => /\ out'.resp = 400
           /\ StatusOf(out'.data.id) # "APPROVED"
           /\ submissions' = submissions
     /\ \A r \in Requests :
          /\ (Idle(r) /\ req'[r].op = "markAttendance")
             => StatusOf(req'[r].arg.id) = "APPROVED"
          /\ (req[r].op = "markAttendance" /\ req[r].pc = "update" /\ req'[r].pc = "log")
             => \A x \in submissions :
                  IF x.id = req[r].arg.id
                  THEN [x EXCEPT !.attended = req[r].arg.attended,
                                 !.attendanceMarkedAt = now,
                                 !.attendanceMarkedBy = req[r].user] \in submissions'
                  ELSE x \in submissions'
     /\ (out'.op = "stats" /\ out'.resp = 200)
        => /\ out'.data.attended = CountAttended(out'.data.eventId, 1)
           /\ out'.data.absent = CountAttended(out'.data.eventId, 0)]_vars

\* getAttendanceStats has just counted a submission that markAttendance marked
\* as attended
C11_Witness ==
  /\ out.op = "stats" /\ out.resp = 200 /\ out.data.attended = 1
  /\ \E x \in submissions :
       /\ x.eventId = out.data.eventId /\ x.status = "APPROVED"
       /\ x.attended = 1 /\ x.attendanceMarkedAt # Null /\ x.attendanceMarkedBy \in Admins

\* C12: a submission whose attended value is set (true or false) has status
\* APPROVED.
C12_AttendedOnlyIfApproved ==
  \A x \in submissions : x.attended # Null => x.status = "APPROVED"

\* ------------------------------------------------- the slug specification
\* bodies of updateEvent that retitle an event
TitlePatches == {[NoPatch EXCEPT !.title = t] : t \in {<<"A", "b">>, <<"a", "-", "b">>}}

\* two events, created and retitled by concurrent requests, with titles that
\* differ and give the same slug text; the clock advances once
NextSlug ==
  \/ now = 1 /\ Tick
  \/ \E r \in Requests, u \in Admins, t \in {<<"a", " ", "b">>, <<"b">>} :
       EventCount < 2 /\ CreateEvent(r, u, t, 1, MaxTime, Null, Null)
  \/ \E r \in Requests, u \in Admins, e \in EventIds, p \in TitlePatches : UpdateEvent(r, u, e, p)
  \/ \E r \in Requests : CreateEventLog(r) \/ UpdateEventWrite(r) \/ UpdateEventLog(r)

SpecSlug == Init /\ [][NextSlug]_vars

\* C16: no two events share a slug, also when events with the same title (or
\* with titles that give the same slug text) are created or retitled by
\* concurrent requests that read the same clock value.
C16_SlugsUnique ==
  \A e1, e2 \in EventIds :
    (e1 # e2 /\ events[e1].exists /\ events[e2].exists) => events[e1].slug # events[e2].slug

\* two requests that retitle two events have computed the same slug at the
\* same clock value; the first has written it and the second has just been
\* turned away by the index
C16_Witness ==
  /\ out.op = "updateEvent" /\ out.msg = "P2002"
  /\ \E e1, e2 \in EventIds :
       /\ e1 # e2 /\ events[e1].exists /\ events[e2].exists
       /\ events[e1].slug[1] = <<"a", "b">>
       /\ events[e2].slug[1] # <<"a", "b">>

\* --------------------------------------- concurrent replacement of a form
\* createOrUpdateForm requests for one event, handled concurrently
NextFormRace ==
  \/ \E r \in Requests, u \in Admins :
       Quiet /\ EventCount = 0 /\ CreateEvent(r, u, <<"b">>, 1, MaxTime, Null, Null)
  \/ \E r \in Requests, u \in Admins, e \in EventIds, fl \in FieldLists :
       CreateOrUpdateForm(r, u, e, FALSE, fl)
  \/ \E r \in Requests : CreateEventLog(r) \/ FormSteps(r)

SpecFormRace == Init /\ [][NextFormRace]_vars

\* ------------------------------------- the validation specification
FieldC == [label |-> "c", required |-> TRUE]

\* one event whose form is set up once, with one or two required fields or
\* an optional and a required one; submits handled one at a time, with
\* entries for any of the fields or with no responses at all
NextValidate ==
  \/ \E r \in Requests, u \in Admins :
       Quiet /\ EventCount = 0 /\ CreateEvent(r, u, <<"b">>, 1, MaxTime, Null, Null)
  \/ \E r \in Requests, u \in Admins, e \in EventIds,
        fl \in {<<FieldA>>, <<FieldB, FieldA>>, <<FieldA, FieldC>>} :
       Quiet /\ ~forms[e].exists /\ CreateOrUpdateForm(r, u, e, FALSE, fl)
  \/ \E r \in Requests, u \in Users, f \in EventIds,
        rs \in (SUBSET (1..MaxFields)) \cup {NoResponses} :
       Quiet /\ forms[f].exists /\ SubmitForm(r, u, f, rs)
  \/ \E r \in Requests :
       \/ CreateEventLog(r)
       \/ FormFind(r) \/ FormCreate(r) \/ FormFlag(r) \/ FormLog(r)
       \/ SubmitFind(r) \/ SubmitCreate(r) \/ SubmitLog(r)

SpecValidate == Init /\ [][NextValidate]_vars

\* ------------------------------------------ the deadline specification
\* one event with or without a deadline and with a form; registrations on
\* both paths and submits, handled one at a time while the clock advances
NextDeadline ==
  \/ Tick
  \/ \E r \in Requests, u \in Admins, dl \in {Null, 1, 2} :
       Quiet /\ EventCount = 0 /\ CreateEvent(r, u, <<"b">>, 1, MaxTime, dl, Null)
  \/ \E r \in Requests, u \in Admins, e \in EventIds :
       Quiet /\ ~forms[e].exists /\ CreateOrUpdateForm(r, u, e, FALSE, <<FieldB>>)
  \/ \E r \in Requests, u \in Users, e \in EventIds :
       \/ Quiet /\ events[e].exists /\ RegisterForEvent(r, u, e)
       \/ Quiet /\ events[e].exists /\ StudentRegister(r, u, e)
       \/ Quiet /\ forms[e].exists /\ SubmitForm(r, u, e, {})
  \/ \E r \in Requests :
       \/ CreateEventLog(r)
       \/ FormFind(r) \/ FormCreate(r) \/ FormFlag(r) \/ FormLog(r)
       \/ RegisterFind(r) \/ RegisterCreate(r) \/ RegisterLog(r)
       \/ StudentRegisterFind(r) \/ StudentRegisterCreate(r) \/ StudentRegisterLog(r)
       \/ SubmitFind(r) \/ SubmitCreate(r) \/ SubmitLog(r)

SpecDeadline == Init /\ [][NextDeadline]_vars

\* ------------------------------------------------ claims on the deadline
\* the deadline dl is set and the clock is past it
Closed(dl) == dl # Null /\ now > dl

\* request r of the student path compares the clock with the deadline of the
\* event it loaded in this step
StudentChecks(r) == req[r].op = "studentRegister" /\ req[r].pc = "findReg" /\ req'[r] # req[r]

\* a request of the kind op arrives, while no other is being handled, and
\* takes slot r in this step
Arrives(r, op) == Quiet /\ Accepts(r) /\ (out'.op = op \/ req'[r].op = op)

\* C20, as stated: a register or submit request that is handled after the
\* event's deadline is answered 400 and leaves registrations and submissions
\* as they were.
C20_PastDeadlineIs400 ==
  [][\A r \in Requests :
       /\ (StudentChecks(r) /\ Closed(req[r].loc.registrationDeadline))
          => /\ out'.resp = 400
             /\ registrations' = registrations /\ submissions' = submissions
       /\ (/\ Arrives(r, "register") \/ Arrives(r, "submit")
           /\ \A e \in EventIds : events[e].exists => Closed(events[e].registrationDeadline))
          => /\ out'.resp = 400
             /\ req'[r] = IdleReq
             /\ registrations' = registrations /\ submissions' = submissions]_vars

\* C20, amended: a request that finds the deadline passed when it reads the
\* clock ends there without a new registration or submission, answered 400,
\* or 409 on the student path when the caller is registered already; a
\* request is answered "deadline passed" only when the deadline is set and
\* the clock is past it; and rows are inserted only by requests that passed
\* their deadline check.
C20_DeadlineCloses ==
  [][/\ \A r \in Requests :
          /\ (StudentChecks(r) /\ Closed(req[r].loc.registrationDeadline))
             => /\ req'[r] = IdleReq
                /\ out'.resp \in {400, 409}
                /\ out'.resp = 409 => RegOf(req[r].arg.eventId, req[r].user) # {}
                /\ registrations' = registrations /\ submissions' = submissions
          /\ (StudentChecks(r) /\ ~Closed(req[r].loc.registrationDeadline))
             => out'.msg # "deadline"
          /\ (Idle(r) /\ req'[r].op = "register")
             => ~Closed(events[req'[r].arg.eventId].registrationDeadline)
          /\ (Idle(r) /\ req'[r].op = "submit")
             => ~Closed(events[req'[r].arg.formId].registrationDeadline)
     /\ (out'.op \in {"register", "submit"} /\ out'.msg = "deadline")
        => /\ out'.resp = 400
           /\ registrations' = registrations /\ submissions' = submissions
           /\ out'.op = "register" => Closed(events[out'.data.eventId].registrationDeadline)
           /\ out'.op = "submit" => Closed(events[out'.data.formId].registrationDeadline)
     /\ (registrations' # registrations \/ submissions' # submissions)
        => \E r \in Requests :
             /\ req[r].op \in {"register", "studentRegister", "submit"}
             /\ req[r].pc = "create" /\ req'[r].pc = "log"]_vars

\* a registered student has asked again after the deadline and has just been
\* answered 409
C20_Witness ==
  /\ out.op = "studentRegister" /\ out.resp = 409
  /\ Closed(events[out.data.eventId].registrationDeadline)
  /\ RegOf(out.data.eventId, out.data.userId) # {}

\* ------------------------------------------------- the whole subsystem
\* every handler, every body, requests handled concurrently
Next ==
  \/ Tick
  \/ \E r \in Requests, u \in Admins, t \in Titles \cup {<<>>}, sd \in Times \cup {Null},
        ed \in Times, dl \in Times \cup {Null}, ma \in 0..MaxCap :
       CreateEvent(r, u, t, sd, ed, dl, ma)
  \/ \E r \in Requests, u \in Admins, e \in EventIds, p \in EventPatches : UpdateEvent(r, u, e, p)
  \/ \E r \in Requests, u \in Users, e \in EventIds \cup {Null} :
       RegisterForEvent(r, u, e) \/ StudentRegister(r, u, e)
  \/ \E r \in Requests, u \in Users, id \in RegIds :
       CancelRegistration(r, u, id) \/ StudentCancelRegistration(r, u, id)
  \/ \E r \in Requests, u \in Admins, e \in EventIds, ra \in BOOLEAN, fl \in FieldLists :
       CreateOrUpdateForm(r, u, e, ra, fl)
  \/ \E r \in Requests, u \in Users, f \in EventIds, rs \in (SUBSET FieldIds) \cup {NoResponses} :
       SubmitForm(r, u, f, rs)
  \/ \E r \in Requests, u \in Admins, id \in SubIds :
       \/ \E st \in SubmissionStatus, rr \in {Undef, 1} : UpdateSubmissionStatus(r, u, id, st, rr)
       \/ \E att \in {Undef, 0, 1} : MarkAttendance(r, u, id, att)
  \/ \E r \in Requests, u \in Admins, ids \in SUBSET SubIds : BulkApproveSubmissions(r, u, ids)
  \/ \E r \in Requests, u \in Admins, e \in EventIds : GetAttendanceStats(r, u, e)
  \/ \E r \in Requests, u \in Admins, t \in NotifTitles, sf \in {Undef, MaxTime} :
       \/ \E sendNow \in BOOLEAN : CreateNotification(r, u, t, sf, sendNow)
       \/ \E n \in NotifIds :
            \/ UpdateNotification(r, u, n, t, sf)
            \/ SendNotificationNow(r, u, n) \/ CancelNotification(r, u, n)
  \/ \E r \in Requests : NotifSteps(r)
  \/ \E r \in Requests :
       \/ UpdateStatusWrite(r) \/ UpdateStatusLog(r) \/ BulkApproveLog(r)
       \/ MarkAttendanceWrite(r) \/ MarkAttendanceLog(r)
       \/ StatsCount(r) \/ StatsAnswer(r)
  \/ \E r \in Requests :
       \/ CreateEventLog(r) \/ UpdateEventWrite(r) \/ UpdateEventLog(r)
       \/ RegisterFind(r) \/ RegisterCreate(r) \/ RegisterLog(r)
       \/ StudentRegisterFind(r) \/ StudentRegisterCreate(r) \/ StudentRegisterLog(r)
       \/ CancelDelete(r) \/ CancelLog(r)
       \/ StudentCancelDelete(r) \/ StudentCancelLog(r)
       \/ FormSteps(r) \/ FormStorageError(r)
       \/ SubmitFind(r) \/ SubmitCreate(r) \/ SubmitLog(r)

Spec == Init /\ [][Next]_vars

\* ------------------------------------------------ claims on registration
\* C1: an event with maxAttendees = N never has more than N registrations,
\* however the count and insert steps of concurrent registration requests of
\* distinct users interleave.
C1_NeverOverCapacity ==
  \A e \in EventIds :
    (events[e].exists /\ Truthy(events[e].maxAttendees))
    => Cardinality(RegsOf(e)) <= events[e].maxAttendees

\* C2: a registration request of a user whose registration for the event
\* exists from the arrival of the request to its answer is answered 409,
\* whatever state the event is in.
C2_RepeatIsConflict ==
  (out.op \in {"register", "studentRegister"} /\ out.dup) => out.resp = 409

\* C3: there is at most one registration per event and user, and the request
\* that loses a race on the unique index is answered 409.
C3_OnePerUserLoserGetsConflict ==
  /\ \A g, h \in registrations : (g.eventId = h.eventId /\ g.userId = h.userId) => g = h
  /\ (out.op \in {"register", "studentRegister"} /\ out.msg = "P2002") => out.resp = 409

\* request r is admitted by registerForEvent's checks on the event in this step
AdmitsRegister(r) == Idle(r) /\ req'[r].op = "register" /\ req'[r].pc = "findReg"

\* C13: cancelling a simple registration frees its slot. The delete removes
\* the row and nothing else, so the event's count drops by one; a request for
\* an event that is at capacity is answered 400 "full", one for an event
\* below capacity is admitted, and an admitted request of a user without a
\* registration inserts the user's row, which is what a 201 reports.
C13_CancelFreesSlot ==
  [][/\ \A r \in Requests :
          /\ (req[r].op = "cancel" /\ req[r].pc = "delete" /\ req'[r].pc = "log")
             => LET g == CHOOSE x \in RegById(req[r].arg.regId) : TRUE
                IN /\ registrations' = registrations \ {g}
                   /\ Cardinality({x \in registrations' : x.eventId = g.eventId})
                        = Cardinality(RegsOf(g.eventId)) - 1
          /\ AdmitsRegister(r)
             => LET ev == events[req'[r].arg.eventId]
                IN Truthy(ev.maxAttendees)
                   => Cardinality(RegsOf(req'[r].arg.eventId)) < ev.maxAttendees
          /\ (req[r].op = "register" /\ req[r].pc = "findReg" /\ req'[r] # req[r]
              /\ RegOf(req[r].arg.eventId, req[r].user) = {})
             => req'[r].pc = "create"
          /\ (req[r].op = "register" /\ req[r].pc = "create" /\ req'[r] # req[r])
             => /\ req'[r].pc = "log"
                /\ Cardinality({x \in registrations' :
                       x.eventId = req[r].arg.eventId /\ x.userId = req[r].user}) = 1
     /\ (out'.op = "register" /\ out'.msg = "full")
        => /\ out'.resp = 400
           /\ Cardinality(RegsOf(out'.data.eventId)) >= events[out'.data.eventId].maxAttendees
     /\ (out'.op = "register" /\ out'.resp = 201)
        => \E r \in Requests :
             req[r].pc = "log" /\ RegOf(req[r].arg.eventId, req[r].user) # {}]_vars

\* the only slot of an event was taken by the first registration, that one
\* was cancelled, and another user's registration has just been inserted
C13_Witness ==
  \E r \in Requests, g \in registrations :
    /\ req[r].op = "register" /\ req[r].pc = "log"
    /\ g.eventId = req[r].arg.eventId /\ g.userId = req[r].user
    /\ events[g.eventId].maxAttendees = 1
    /\ g.id = 2 /\ RegById(1) = {}

\* C14: registerForEvent answers 404 for an event that does not exist, else
\* 400 "deadline" for a deadline that is set and past, else 400 "full" for a
\* capacity that is set and reached by the current count, else 409 for a user
\* who has a registration for the event when the handler looks for it; it
\* admits no request in one of these cases, and none of these answers comes
\* with a new registration.
C14_RegisterRejections ==
  [][/\ (out'.op = "register" /\ out'.resp \in {400, 404, 409})
        => /\ registrations' = registrations
           /\ out'.msg \in {"event id required", "not found", "deadline", "full",
                            "already registered"}
           /\ out'.msg # "event id required" =>
                LET e == out'.data.eventId
                    ev == events[e]
                    passed == ev.registrationDeadline # Null /\ now > ev.registrationDeadline
                    full == ev.maxAttendees # Null
                            /\ Cardinality(RegsOf(e)) >= ev.maxAttendees
                IN /\ out'.msg = "not found" <=> out'.resp = 404
                   /\ out'.msg = "already registered" <=> out'.resp = 409
                   /\ out'.msg = "already registered" => RegOf(e, out'.data.userId) # {}
                   /\ out'.msg # "already registered" =>
                        /\ out'.msg = "not found" <=> ~ev.exists
                        /\ out'.msg = "deadline" <=> (ev.exists /\ passed)
                        /\ out'.msg = "full" <=> (ev.exists /\ ~passed /\ full)
     /\ \A r \in Requests :
          /\ AdmitsRegister(r)
             => LET ev == events[req'[r].arg.eventId]
                IN /\ ev.exists
                   /\ ~(ev.registrationDeadline # Null /\ now > ev.registrationDeadline)
                   /\ ~(ev.maxAttendees # Null
                        /\ Cardinality(RegsOf(req'[r].arg.eventId)) >= ev.maxAttendees)
          /\ (req[r].op = "register" /\ req[r].pc = "findReg" /\ req'[r].pc = "create")
             => RegOf(req[r].arg.eventId, req[r].user) = {}]_vars

\* a repeated registration has just been answered 409 and the user still has
\* the one row
C14_Witness ==
  /\ out.op = "register" /\ out.resp = 409 /\ out.msg = "already registered"
  /\ Cardinality(RegOf(out.data.eventId, out.data.userId)) = 1

\* ------------------------------------------------- claims on atomicity
CoreOps == {"register", "cancel", "form", "submit", "updateStatus", "markAttendance"}
\* request r stands after one of its writes: every handler goes to its
\* activity-log insert right after its write, and createOrUpdateForm stands
\* after a write from its deleteMany on
HasWritten(r) == req[r].pc \in {"log", "flag", "updateForm"}

\* C15: a core operation that answers with an error (4xx or 500) has written
\* nothing: with requests handled one at a time, the tables are then as they
\* were when the request arrived.
C15_ErrorMeansNoWrite ==
  [][\A r \in Requests :
       (req[r].op \in CoreOps /\ ~Idle(r) /\ req'[r] = IdleReq /\ out'.resp >= 400)
       => ~HasWritten(r)]_vars

\* ----------------------------------------- claims on forms and submissions
\* C4: there is at most one submission per form and user, and a submit of a
\* user who has one already (and that is not turned away for the deadline,
\* which submit checks first) is answered 409, also when it is the insert of
\* the later of two interleaved submits that finds it.
C4_OneSubmissionElseConflict ==
  /\ \A x, y \in submissions : (x.formId = y.formId /\ x.userId = y.userId) => x = y
  /\ (out.op = "submit" /\ out.msg # "deadline" /\ (out.dup \/ out.msg = "P2002"))
     => out.resp = 409

\* the rows of form f in the field table fs are those of the list fl: one per
\* element, at the element's 0-based position
FieldsMatch(fs, f, fl) ==
  LET rows == {x \in fs : x.formId = f}
  IN /\ Cardinality(rows) = Len(fl)
     /\ \A i \in 1..Len(fl) :
          \E x \in rows : x.order = i - 1 /\ x.label = fl[i].label /\ x.required = fl[i].required

\* C8: when createOrUpdateForm has written the fields of a form that existed,
\* the form's fields are exactly those of the call: none of the earlier ones,
\* one per input element, order = 0-based position.
C8_ReplacedFieldsAreTheNewOnes ==
  [][\A r \in Requests :
       (req[r].op = "form" /\ req[r].pc = "updateForm" /\ req'[r].pc = "flag")
       => /\ FieldsMatch(fields', req[r].arg.eventId, req[r].arg.fields)
          /\ req[r].loc.existingFields \cap fields' = {}]_vars

\* a form that had two fields has been replaced by one with a single field
C8_Witness ==
  \E r \in Requests :
    /\ req[r].op = "form" /\ req[r].pc = "flag"
    /\ Cardinality(req[r].loc.existingFields) = 2
    /\ Len(req[r].arg.fields) = 1
    /\ FieldsMatch(fields, req[r].arg.eventId, req[r].arg.fields)

\* C9: a form never stays without fields: unless a request is between its
\* delete and its write of the form's fields, every form has a field.
C9_NoFormLeftWithoutFields ==
  \A e \in EventIds :
    (forms[e].exists
     /\ ~\E r \in Requests : req[r].op = "form" /\ req[r].arg.eventId = e /\ req[r].pc = "updateForm")
    => FieldsOf(e) # {}

\* C17: once the createOrUpdateForm requests for an event have ended, the
\* form's fields are those of one request's list, with the orders 0..n-1 each
\* used once, and never a mixture or the union of two lists.
C17_FieldsOfOneRequest ==
  \A e \in EventIds :
    (forms[e].exists /\ ~\E r \in Requests : req[r].op = "form" /\ req[r].arg.eventId = e)
    => \E fl \in FieldLists : FieldsMatch(fields, e, fl)

\* request r inserts its submission in this step
CreatesSubmission(r) == req[r].op = "submit" /\ req[r].pc = "create" /\ req'[r].pc = "log"

\* request r checks the required fields in this step: it stands at its look
\* for an earlier submission and the caller has none
ValidatesRequired(r) ==
  /\ req[r].op = "submit" /\ req[r].pc = "findSub" /\ req'[r] # req[r]
  /\ SubsOf(req[r].arg.formId, req[r].user) = {}

\* C18: submit creates a submission only if every required field of the form
\* it loaded has an entry in responses, and a submit that lacks the entry of
\* a required field is answered 400 and creates no submission.
C18_RequiredFieldsOr400 ==
  [][\A r \in Requests :
       /\ CreatesSubmission(r)
          => \A x \in req[r].loc.fields : x.required => x.id \in req[r].arg.responses
       /\ (ValidatesRequired(r)
           /\ \E x \in req[r].loc.fields : x.required /\ x.id \notin req[r].arg.responses)
          => /\ out'.op = "submit" /\ out'.resp = 400
             /\ req'[r] = IdleReq
             /\ submissions' = submissions]_vars

\* C19: when several required fields lack an entry, the 400 of submit names
\* the label of the one with the smallest order.
C19_FirstMissingByOrder ==
  [][\A r \in Requests :
       (ValidatesRequired(r) /\ out'.op = "submit" /\ out'.msg = "required")
       => LET missing == MissingRequired(req[r].loc.fields, req[r].arg.responses)
              first == CHOOSE x \in missing : \A y \in missing : x.order <= y.order
          IN out'.data.label = first.label]_vars

\* C10: the submission that submit creates is APPROVED with approvedAt set
\* when the form it loaded has requiresApproval false, and PENDING with
\* approvedAt null when it has requiresApproval true.
C10_InitialStatusByApproval ==
  [][\A r \in Requests :
       CreatesSubmission(r) =>
         /\ Cardinality(submissions' \ submissions) = 1
         /\ \A x \in submissions' \ submissions :
              IF req[r].loc.requiresApproval
              THEN x.status = "PENDING" /\ x.approvedAt = Null
              ELSE x.status = "APPROVED" /\ x.approvedAt # Null]_vars

\* a submission to a form that needs no approval has just been created, and
\* it is APPROVED with its approval time set
C10_Witness ==
  \E r \in Requests :
    /\ req[r].op = "submit" /\ req[r].pc = "log"
    /\ \E x \in SubById(req[r].loc.created) :
         /\ x.status = "APPROVED" /\ x.approvedAt # Null
         /\ ~req[r].loc.requiresApproval
         /\ ~forms[x.formId].requiresApproval

\* ------------------------------------------- the decision specification
\* reasons a request body gives for a rejection
Reasons == {1}

\* decisions on the submissions of one event, handled one at a time: single
\* updates with every status of the enum, with and without a reason, and
\* bulk approvals of every id list
NextDecide ==
  \/ \E r \in Requests, u \in Admins :
       Quiet /\ EventCount = 0 /\ CreateEvent(r, u, <<"b">>, 1, MaxTime, Null, Null)
  \/ \E r \in Requests, u \in Admins, e \in EventIds, ra \in BOOLEAN :
       Quiet /\ ~forms[e].exists /\ CreateOrUpdateForm(r, u, e, ra, <<FieldA>>)
  \/ \E r \in Requests, u \in Users, f \in EventIds :
       Quiet /\ forms[f].exists /\ SubmitForm(r, u, f, FieldIds)
  \/ \E r \in Requests, u \in Admins, id \in SubIds, st \in SubmissionStatus,
        rr \in Reasons \cup {Undef} :
       Quiet /\ UpdateSubmissionStatus(r, u, id, st, rr)
  \/ \E r \in Requests, u \in Admins, ids \in SUBSET SubIds :
       Quiet /\ BulkApproveSubmissions(r, u, ids)
  \/ \E r \in Requests :
       \/ CreateEventLog(r)
       \/ FormFind(r) \/ FormCreate(r) \/ FormFlag(r) \/ FormLog(r)
       \/ SubmitFind(r) \/ SubmitCreate(r) \/ SubmitLog(r)
       \/ UpdateStatusWrite(r) \/ UpdateStatusLog(r) \/ BulkApproveLog(r)

SpecDecide == Init /\ [][NextDecide]_vars

\* ------------------------------------------------- claims on decisions
\* the row of submission id after the step
SubAfter(id) == CHOOSE x \in submissions' : x.id = id

\* request r writes its status update in this step
WritesStatus(r) == req[r].op = "updateStatus" /\ req[r].pc = "update" /\ req'[r].pc = "log"

\* C21: updateStatus accepts only APPROVED, REJECTED and WAITLISTED; any other
\* status is answered 400 and changes no submission. Its write leaves the
\* submission with the requested status and: for APPROVED, approvedBy = the
\* caller, approvedAt set, rejectionReason null; for REJECTED, approvedBy and
\* approvedAt null and rejectionReason = the reason supplied; for WAITLISTED,
\* all three null.
C21_StatusUpdateSetsFields ==
  [][/\ (out'.op = "updateStatus" /\ out'.msg = "invalid status")
        => /\ out'.resp = 400
           /\ submissions' = submissions
     /\ \A r \in Requests :
          /\ (Quiet /\ Accepts(r) /\ out'.op = "updateStatus" /\ out'.resp = 400)
             => out'.data.status \notin {"APPROVED", "REJECTED", "WAITLISTED"}
          /\ (Idle(r) /\ req'[r].op = "updateStatus")
             => req'[r].arg.status \in {"APPROVED", "REJECTED", "WAITLISTED"}
          /\ WritesStatus(r)
             => LET a == req[r].arg
                    y == SubAfter(a.id)
                IN /\ y.status = a.status
                   /\ a.status = "APPROVED"
                      => /\ y.approvedBy = req[r].user
                         /\ y.approvedAt = now /\ y.approvedAt # Null
                         /\ y.rejectionReason = Null
                   /\ a.status = "REJECTED"
                      => /\ y.approvedBy = Null /\ y.approvedAt = Null
                         /\ a.rejectionReason \in Reasons => y.rejectionReason = a.rejectionReason
                   /\ a.status = "WAITLISTED"
                      => /\ y.approvedBy = Null /\ y.approvedAt = Null
                         /\ y.rejectionReason = Null
                   /\ \A x \in submissions : x.id # a.id => x \in submissions']_vars

\* an update to REJECTED with a reason has just been written
C21_Witness ==
  \E r \in Requests :
    /\ req[r].op = "updateStatus" /\ req[r].pc = "log"
    /\ req[r].arg.status = "REJECTED" /\ req[r].arg.rejectionReason \in Reasons
    /\ \E x \in SubById(req[r].arg.id) :
         /\ x.status = "REJECTED" /\ x.rejectionReason = req[r].arg.rejectionReason
         /\ x.approvedBy = Null /\ x.approvedAt = Null

\* C22: every submission whose status is REJECTED carries a rejection reason:
\* a REJECTED request without one puts no submission into REJECTED.
C22_RejectedHasReason ==
  \A x \in submissions : x.status = "REJECTED" => x.rejectionReason # Null

\* C23: bulkApprove changes only the listed submissions that are PENDING at
\* the time of the update, which become APPROVED with the caller as approver
\* and the time of the update as approvedAt; every other submission, listed
\* or not, is kept as it is.
C23_BulkApproveFrame ==
  [][\A r \in Requests :
       (Idle(r) /\ req'[r].op = "bulkApprove")
       => /\ \A x \in submissions :
               IF x.id \in req'[r].arg.ids /\ x.status = "PENDING"
               THEN [x EXCEPT !.status = "APPROVED", !.approvedBy = req'[r].user,
                              !.approvedAt = now] \in submissions'
               ELSE x \in submissions'
          /\ Cardinality(submissions') = Cardinality(submissions)]_vars

\* a bulk approval that lists both submissions has just approved the pending
\* one and left the rejected one as it was
C23_Witness ==
  \E r \in Requests :
    /\ req[r].op = "bulkApprove" /\ req[r].pc = "log" /\ req[r].arg.ids = SubIds
    /\ \E x, y \in submissions :
         /\ x.status = "APPROVED" /\ x.approvedBy = req[r].user /\ x.rejectionReason = Null
         /\ y.status = "REJECTED" /\ y.approvedBy = Null /\ y.rejectionReason # Null

\* C24: a submission that has left PENDING never has status PENDING again.
C24_NeverBackToPending ==
  [][\A x \in submissions :
       x.status # "PENDING"
       => \A y \in submissions' : y.id = x.id => y.status # "PENDING"]_vars

\* a request to put a submission back to PENDING has just been answered 400
\* while a decided submission exists
C24_Witness ==
  /\ out.op = "updateStatus" /\ out.resp = 400 /\ out.data.status = "PENDING"
  /\ \E x \in submissions : x.status \in {"REJECTED", "WAITLISTED"}

\* C27: approvedAt is set exactly on the submissions whose status is APPROVED,
\* and rejectionReason is set only on submissions whose status is REJECTED.
C27_DecisionFieldsAgree ==
  \A x \in submissions :
    /\ x.approvedAt # Null <=> x.status = "APPROVED"
    /\ x.rejectionReason # Null => x.status = "REJECTED"

\* one submission approved by an admin, another rejected with a
\* reason
C27_Witness ==
  \E x, y \in submissions :
    /\ x.status = "APPROVED" /\ x.approvedAt # Null /\ x.approvedBy \in Admins
    /\ x.rejectionReason = Null
    /\ y.status = "REJECTED" /\ y.rejectionReason # Null /\ y.approvedAt = Null

\* ------------------------------------------- claims on attendance figures
\* the submissions of event e that satisfy nothing more, that are approved,
\* and that are approved with attended = att
OfEvent(e) == {x \in submissions : x.eventId = e}
ApprovedOf(e) == {x \in OfEvent(e) : x.status = "APPROVED"}
MarkedOf(e, att) == {x \in ApprovedOf(e) : x.attended = att}

\* C25: getAttendanceStats answers totalSubmissions = the number of
\* submissions of the event, approved = those with status APPROVED, attended
\* and absent = the approved ones with attended true and false, so that
\* attended + absent <= approved <= totalSubmissions; attendanceRate is
\* attended / approved as a percentage to two decimals, and 0 when approved
\* is 0, an event without submissions included.
C25_StatsFigures ==
  [][(out'.op = "stats" /\ out'.resp = 200)
     => LET d == out'.data
        IN /\ d.totalSubmissions = Cardinality(OfEvent(d.eventId))
           /\ d.approved = Cardinality(ApprovedOf(d.eventId))
           /\ d.attended = Cardinality(MarkedOf(d.eventId, 1))
           /\ d.absent = Cardinality(MarkedOf(d.eventId, 0))
           /\ d.attended + d.absent <= d.approved
           /\ d.approved <= d.totalSubmissions
           /\ d.approved = 0 => d.attendanceRate = 0
           /\ d.approved > 0
              => /\ 2 * (d.attendanceRate * d.approved - d.attended * 10000) <= d.approved
                 /\ 2 * (d.attended * 10000 - d.attendanceRate * d.approved) <= d.approved]_vars

\* the statistics of an event with two approved submissions, one of them
\* attended, have just been answered with a rate of 50.00
C25_Witness ==
  /\ out.op = "stats" /\ out.resp = 200
  /\ out.data.totalSubmissions = 2 /\ out.data.approved = 2
  /\ out.data.attended = 1 /\ out.data.attendanceRate = 5000

\* the statistics of an event without submissions have just been answered
C25_WitnessEmpty ==
  /\ out.op = "stats" /\ out.resp = 200
  /\ out.data.totalSubmissions = 0 /\ out.data.attendanceRate = 0

\* --------------------------------------- the cancellation specification
\* registrations for one event and cancellations through both controllers,
\* by every user for every registration, handled one at a time
NextCancel ==
  \/ \E r \in Requests, u \in Admins :
       Quiet /\ EventCount = 0 /\ CreateEvent(r, u, <<"b">>, 1, MaxTime, Null, Null)
  \/ \E r \in Requests, u \in Users, e \in EventIds : Quiet /\ RegisterForEvent(r, u, e)
  \/ \E r \in Requests, u \in Users, id \in RegIds :
       \/ Quiet /\ CancelRegistration(r, u, id)
       \/ Quiet /\ StudentCancelRegistration(r, u, id)
  \/ \E r \in Requests :
       \/ CreateEventLog(r)
       \/ RegisterFind(r) \/ RegisterCreate(r) \/ RegisterLog(r)
       \/ CancelDelete(r) \/ CancelLog(r)
       \/ StudentCancelDelete(r) \/ StudentCancelLog(r)

SpecCancel == Init /\ [][NextCancel]_vars

\* ---------------------------------------------- claims on cancellation
\* request r deletes its registration in this step
DeletesRegistration(r, op) ==
  req[r].op = op /\ req[r].pc = "delete" /\ req'[r].pc = "log"

\* C26: cancelRegistration deletes a registration only for a caller who owns
\* it or, through EventController, has role ADMIN or SUPER_ADMIN; every other
\* caller of an existing registration is answered 403 and the registration
\* and the event's registration count stay as they were.
C26_CancelNeedsOwnerOrAdmin ==
  [][/\ \A r \in Requests :
          /\ DeletesRegistration(r, "cancel")
             => LET g == CHOOSE x \in RegById(req[r].arg.regId) : TRUE
                IN /\ g.userId = req[r].user \/ Role(req[r].user) \in {"ADMIN", "SUPER_ADMIN"}
                   /\ registrations' = registrations \ {g}
          /\ DeletesRegistration(r, "studentCancel")
             => LET g == CHOOSE x \in RegById(req[r].arg.regId) : TRUE
                IN /\ g.userId = req[r].user
                   /\ registrations' = registrations \ {g}
     /\ (\E g \in registrations : g \notin registrations')
        => \E r \in Requests :
             DeletesRegistration(r, "cancel") \/ DeletesRegistration(r, "studentCancel")
     /\ (out'.op \in {"cancel", "studentCancel"} /\ out'.resp = 403)
        => /\ registrations' = registrations
           /\ \E g \in RegById(out'.data.regId) :
                /\ g.userId # out'.data.userId
                /\ out'.op = "cancel" => Role(out'.data.userId) \notin {"ADMIN", "SUPER_ADMIN"}
                /\ Cardinality({x \in registrations' : x.eventId = g.eventId})
                     = Cardinality(RegsOf(g.eventId))]_vars

\* a student who asked EventController to cancel another user's registration
\* has just been answered 403, and the registration is still there
C26_Witness ==
  /\ out.op = "cancel" /\ out.resp = 403
  /\ Role(out.data.userId) = "STUDENT"
  /\ \E g \in RegById(out.data.regId) : g.userId # out.data.userId

\* an admin who asked StudentEventController to cancel another user's
\* registration has just been answered 403
C26_WitnessStudentPath ==
  /\ out.op = "studentCancel" /\ out.resp = 403
  /\ Role(out.data.userId) = "ADMIN"
  /\ \E g \in RegById(out.data.regId) : g.userId # out.data.userId

\* ------------------------------------------- the capacity specification
\* bodies of updateEvent that set the capacity or end the event
CapPatches ==
  {[NoPatch EXCEPT !.maxAttendees = MaxCap],
   [NoPatch EXCEPT !.status = "CANCELLED"],
   [NoPatch EXCEPT !.status = "COMPLETED"]}

\* one event, created with or without a capacity and edited afterwards, with
\* registrations through both controllers and cancellations, one request at
\* a time
NextCap ==
  \/ \E r \in Requests, u \in Admins, ma \in {0, MaxCap} :
       Quiet /\ EventCount = 0 /\ CreateEvent(r, u, <<"b">>, 1, MaxTime, Null, ma)
  \/ \E r \in Requests, u \in Admins, e \in EventIds, p \in CapPatches :
       Quiet /\ UpdateEvent(r, u, e, p)
  \/ \E r \in Requests, u \in Users, e \in EventIds :
       \/ Quiet /\ RegisterForEvent(r, u, e)
       \/ Quiet /\ StudentRegister(r, u, e)
  \/ \E r \in Requests, u \in Users, id \in RegIds : Quiet /\ CancelRegistration(r, u, id)
  \/ \E r \in Requests :
       \/ CreateEventLog(r) \/ UpdateEventWrite(r) \/ UpdateEventLog(r)
       \/ RegisterFind(r) \/ RegisterCreate(r) \/ RegisterLog(r)
       \/ StudentRegisterFind(r) \/ StudentRegisterCreate(r) \/ StudentRegisterLog(r)
       \/ CancelDelete(r) \/ CancelLog(r)

SpecCap == Init /\ [][NextCap]_vars

\* ------------------------------------------------- claims on capacity
\* C28: in every state reached by createEvent, updateEvent, registerForEvent
\* and cancelRegistration calls handled one after the other, updateEvent
\* calls that change maxAttendees included, an event whose maxAttendees is
\* set has at most that many registrations.
C28_RowsWithinCapacity ==
  \A e \in EventIds :
    events[e].exists
    => \/ ~Truthy(events[e].maxAttendees)
       \/ ~(Cardinality(RegsOf(e)) > events[e].maxAttendees)

\* C29: no registration is created for an event whose status is CANCELLED or
\* COMPLETED: registerForEvent of either controller rejects it and inserts no
\* row.
C29_NoRowForEndedEvent ==
  [][\A g \in registrations' :
       g \notin registrations
       => events[g.eventId].status \notin {"CANCELLED", "COMPLETED"}]_vars

\* --------------------------------------- the notification specification
\* notifications created as drafts, scheduled or sent at once, then edited,
\* sent and cancelled by concurrent admin requests
NextNotify ==
  \/ \E r \in Requests, u \in Admins, sf \in {Undef, MaxTime}, sendNow \in BOOLEAN :
       CreateNotification(r, u, "x", sf, sendNow)
  \/ \E r \in Requests, u \in Admins, n \in NotifIds :
       \/ \E t \in {NoTitle, "y"}, sf \in {Undef, MaxTime} : UpdateNotification(r, u, n, t, sf)
       \/ SendNotificationNow(r, u, n)
       \/ CancelNotification(r, u, n)
  \/ \E r \in Requests : NotifSteps(r)

SpecNotify == Init /\ [][NextNotify]_vars

\* ---------------------------------------------- claims on notifications
\* the content of a notification: what updateNotification writes
Content(row) == <<row.title, row.scheduledFor>>

\* C30: a SENT notification is final: updateNotification and
\* cancelNotification answer it with 400 and change nothing,
\* sendNotificationNow answers it with 400, and however the steps of
\* concurrent update, cancel and send requests interleave, a notification
\* that has become SENT is never CANCELLED afterwards and never has its
\* content altered.
C30_SentIsFinal ==
  [][/\ (out'.op \in {"updateNotification", "cancelNotification", "sendNow"} /\ out'.resp = 400)
        => notifications' = notifications
     /\ \A n \in NotifIds :
          (notifications[n].exists /\ notifications[n].status = "SENT")
          => /\ notifications'[n].status = "SENT"
             /\ Content(notifications'[n]) = Content(notifications[n])]_vars

====
